---------------------------- MODULE Spec2Model ----------------------------
(***************************************************************************)
(* StegaVault backend: the steganographic container codec.                 *)
(*                                                                         *)
(* Buffers are sequences of bytes (0..255).  The code indexes buffers from *)
(* 0; BufGet/BufSet/Slice take the code's 0-based offsets.                 *)
(*                                                                         *)
(* Three specifications share the module:                                  *)
(*   SpecCodec  embedLSB_RGBA / embedLSB_WavPCM / parseWavHeader applied   *)
(*              to small carriers and payloads;                            *)
(*   SpecPack   packPayload / parseContainer applied to small secrets and  *)
(*              to hand-made containers;                                   *)
(*   Spec       the request handlers (embed, extract) end to end.          *)
(***************************************************************************)
EXTENDS Integers, Sequences, FiniteSets, TLC

VARIABLES
  carrier,    \* SpecCodec: the carrier handed to the embed function
  payload,    \* SpecCodec: the payload bytes handed to it
  r,          \* SpecCodec: what the embed function returned (or threw)
  before,     \* SpecCodec: the carrier buffer as it was before the call
  secret,     \* the secret text, secret file and password of the embed request
  container,  \* what packPayload returned (or threw), or a hand-made container
  parsed,     \* SpecPack: what parseContainer returned (or threw)
  cover,      \* Spec: the cover upload of the embed request
  stego,      \* Spec: the file a client holds: sent by embed, or its own
  res,        \* Spec: the response to the last request
  sealed,     \* Spec: the (key, iv, cipher text, tag) the cipher has produced
  tampered,   \* Spec: the envelope byte changed in the stego file, if any
  req,        \* Spec: the last request: operation, handler, password given
  pc,         \* Spec: which requests have been served
  disk,       \* Spec: the temporary files in os.tmpdir()
  calls       \* SpecExtract, SpecConcurrent: the locals of each running handler

codecVars == <<carrier, payload, r, before>>
packVars == <<secret, container, parsed>>
serverVars == <<cover, stego, res, sealed, tampered, req, pc>>
vars == <<carrier, payload, r, before, secret, container, parsed, cover, stego, res,
          sealed, tampered, req, pc, disk, calls>>

---------------------------------------------------------------------------
(* Bounds of the model.                                                    *)
MaxWidth == 5
MaxHeight == 2
MaxPayloadLen == 3
MaxDataLen == 21
MaxFileLen == 4
MaxCoverWidth == 24
MaxCoverHeight == 25
MaxCoverSamples == 1800
\* SpecReader: the sizes readBytes is called with, and the number of calls
MaxReadLen == 2
MaxReads == 3

---------------------------------------------------------------------------
(* Buffer primitives (Node's Buffer / Uint8Array).                         *)

Byte == 0..255

\* buf[i] read: an index outside the buffer reads undefined, and
\* (undefined & 1) is 0, so the callers, which only use the low bit, see 0.
BufGet(buf, i) == IF i >= 0 /\ i < Len(buf) THEN buf[i + 1] ELSE 0

\* buf[i] = v: a store outside a typed array is ignored.
BufSet(buf, i, v) == IF i >= 0 /\ i < Len(buf) THEN [buf EXCEPT ![i + 1] = v] ELSE buf

\* const v = ...; F(v): the value is computed once, where it is declared
Let(v, F(_)) == CHOOSE y \in {F(x) : x \in {v}} : TRUE

Min(a, b) == IF a < b THEN a ELSE b
Max(a, b) == IF a > b THEN a ELSE b

\* buf.slice(start, end) for integer arguments: negative offsets count from
\* the end, both are clamped to the buffer, and end <= start gives <<>>.
Slice(buf, start, end) ==
  LET n == Len(buf)
      s == IF start < 0 THEN Max(n + start, 0) ELSE Min(start, n)
      e == IF end < 0 THEN Max(n + end, 0) ELSE Min(end, n)
  IN  IF e <= s THEN <<>> ELSE SubSeq(buf, s + 1, e)

RECURSIVE Concat(_)
\* Buffer.concat(list)
Concat(list) == IF list = <<>> THEN <<>> ELSE Head(list) \o Concat(Tail(list))

\* (x & 0xfe) | bit
SetLsb(x, bit) == (x - (x % 2)) + bit

\* (byte >> b) & 1
BitAt(byte, b) == (byte \div (2 ^ b)) % 2

\* const u32 = (n) => { b.writeUInt32BE(n >>> 0, 0) }.  The model's integers
\* end at 2^31 - 1, and every length in it is far below: n >>> 0 is n there.
u32(n) == << (n \div 16777216) % 256, (n \div 65536) % 256, (n \div 256) % 256, n % 256 >>

\* const readU32BE = (buf) => buf.readUInt32BE(0); the callers pass 4 bytes
\* (a shorter buffer makes readUInt32BE throw a RangeError: see the callers).
\* The buffers of the model keep the top bit of a length field clear.
readU32BE(buf) == buf[1] * 16777216 + buf[2] * 65536 + buf[3] * 256 + buf[4]

\* buf.readUInt32LE(off) and buf.readUInt16LE(off) inside the buffer
readUInt32LE(buf, off) ==
  buf[off + 1] + buf[off + 2] * 256 + buf[off + 3] * 65536 + buf[off + 4] * 16777216
readUInt16LE(buf, off) == buf[off + 1] + buf[off + 2] * 256

bitsNeeded(nBytes) == nBytes * 8

\* Math.ceil(bits / 8 / 1024)
CeilKB(bits) == (bits + 8191) \div 8192

---------------------------------------------------------------------------
(* Image LSB.                                                              *)

NoError == "none"
ErrImageCapacity == "Not enough capacity."
ErrWavCapacity == "Not enough WAV capacity."

\* The mutant of the loop body that takes the pixels to be three bytes wide.
rgbaWrite_stride3(rgbabuf, pl, bitIdx) ==
  LET bit == BitAt(pl[(bitIdx \div 8) + 1], 7 - (bitIdx % 8))
      chOffset == (bitIdx \div 3) * 3 + (bitIdx % 3)
  IN  BufSet(rgbabuf, chOffset, SetLsb(BufGet(rgbabuf, chOffset), bit))

\* The mutant of the loop body that also makes the pixel it writes opaque.
rgbaWrite_opaque(rgbabuf, pl, bitIdx) ==
  LET bit == BitAt(pl[(bitIdx \div 8) + 1], 7 - (bitIdx % 8))
      base == (bitIdx \div 3) * 4
      chOffset == base + (bitIdx % 3)
  IN  BufSet(BufSet(rgbabuf, chOffset, SetLsb(BufGet(rgbabuf, chOffset), bit)),
             base + 3, 255)

\* One turn of the inner loop, for the bitIdx-th payload bit: the loops
\* "for i ... for b = 7..0 ... bitIdx++" visit i = bitIdx div 8 and
\* b = 7 - bitIdx mod 8.
rgbaWrite(rgbabuf, pl, bitIdx) ==
  LET i == bitIdx \div 8
      b == 7 - (bitIdx % 8)
      bit == BitAt(pl[i + 1], b)
      pixelIndex == bitIdx \div 3
      channel == bitIdx % 3
      base == pixelIndex * 4
      chOffset == base + channel
  IN  BufSet(rgbabuf, chOffset, SetLsb(BufGet(rgbabuf, chOffset), bit))

RECURSIVE rgbaLoop(_, _, _, _)
\* The turns lo .. hi-1 of the loop, in order (the range is halved so that
\* the evaluation stays shallow; Len(left) forces the first half first).
rgbaLoop(rgbabuf, pl, lo, hi) ==
  IF hi <= lo THEN rgbabuf
  ELSE IF hi = lo + 1 THEN rgbaWrite(rgbabuf, pl, lo)
  ELSE Let(rgbaLoop(rgbabuf, pl, lo, (lo + hi) \div 2), LAMBDA left :
         IF Len(left) >= 0 THEN rgbaLoop(left, pl, (lo + hi) \div 2, hi) ELSE left)

\* The mutant of embedLSB_RGBA that walks the payload before it compares
\* needBits with capacityBits.
embedLSB_RGBA_writeFirst(rgbabuf, width, height, pl) ==
  LET capacityBits == width * height * 3
      needBits == bitsNeeded(Len(pl))
      done == [buf |-> rgbaLoop(rgbabuf, pl, 0, needBits)]
  IN  IF needBits > capacityBits
      THEN [ok |-> FALSE, error |-> ErrImageCapacity, needKB |-> CeilKB(needBits),
            haveKB |-> CeilKB(capacityBits), usedBits |-> 0, buf |-> done.buf]
      ELSE [ok |-> TRUE, error |-> NoError, needKB |-> 0, haveKB |-> 0,
            usedBits |-> needBits, buf |-> done.buf]

\* The mutant of embedLSB_RGBA whose capacity test is off by one byte.
embedLSB_RGBA_loose(rgbabuf, width, height, pl) ==
  LET capacityBits == width * height * 3
      needBits == bitsNeeded(Len(pl))
  IN  IF needBits > capacityBits + 8
      THEN [ok |-> FALSE, error |-> ErrImageCapacity, needKB |-> CeilKB(needBits),
            haveKB |-> CeilKB(capacityBits), usedBits |-> 0, buf |-> rgbabuf]
      ELSE [ok |-> TRUE, error |-> NoError, needKB |-> 0, haveKB |-> 0,
            usedBits |-> needBits,
            buf |-> rgbaLoop(rgbabuf, pl, 0, needBits)]

\* function embedLSB_RGBA(rgbabuf, width, height, payload): the result
\* object, and the buffer as the call leaves it (the code writes in place).
embedLSB_RGBA(rgbabuf, width, height, pl) ==
  LET capacityBits == width * height * 3
      needBits == bitsNeeded(Len(pl))
  IN  IF needBits > capacityBits
      THEN [ok |-> FALSE, error |-> ErrImageCapacity, needKB |-> CeilKB(needBits),
            haveKB |-> CeilKB(capacityBits), usedBits |-> 0, buf |-> rgbabuf]
      ELSE [ok |-> TRUE, error |-> NoError, needKB |-> 0, haveKB |-> 0,
            usedBits |-> needBits,
            buf |-> rgbaLoop(rgbabuf, pl, 0, needBits)]

---------------------------------------------------------------------------
(* WAV parsing and audio LSB.                                              *)

RIFF == <<82, 73, 70, 70>>
WAVE == <<87, 65, 86, 69>>
FMT_ == <<102, 109, 116, 32>>
DATA == <<100, 97, 116, 97>>

ErrNotWav == "Audio cover must be WAV (RIFF/WAVE)."
ErrNoFmt == "Invalid WAV: missing fmt chunk."
ErrNotPcm == "WAV must be PCM (uncompressed)."
ErrBitDepth == "Unsupported WAV bit depth"
ErrNoData == "Invalid WAV: missing data chunk."
ErrRange == "RangeError"

\* buf.toString("ascii", start, end): the range is clamped to the buffer and
\* the ascii decoder drops the high bit of every byte.
toAscii(buf, start, end) ==
  LET b == Slice(buf, start, end) IN [i \in 1..Len(b) |-> b[i] % 128]

NoFmt == [present |-> FALSE, audioFormat |-> 0, numChannels |-> 0, sampleRate |-> 0,
          byteRate |-> 0, blockAlign |-> 0, bitsPerSample |-> 0]

RECURSIVE wavChunks(_, _)
\* while (offset + 8 <= buf.length) { ... }: the chunk walk.  A fmt chunk
\* whose 16 fields do not fit in the buffer makes a read throw (thrown).
wavChunks(buf, s) ==
  IF ~(s.offset + 8 <= Len(buf)) THEN s
  ELSE LET id == toAscii(buf, s.offset, s.offset + 4)
           size == readUInt32LE(buf, s.offset + 4)
           start == s.offset + 8
           end == start + size
       IN  IF end > Len(buf) THEN s
           ELSE IF id = FMT_
           THEN IF start + 16 > Len(buf) THEN [s EXCEPT !.thrown = TRUE]
                ELSE wavChunks(buf,
                       [s EXCEPT !.offset = end + (size % 2),
                                 !.fmt = [present |-> TRUE,
                                          audioFormat |-> readUInt16LE(buf, start + 0),
                                          numChannels |-> readUInt16LE(buf, start + 2),
                                          sampleRate |-> readUInt32LE(buf, start + 4),
                                          byteRate |-> readUInt32LE(buf, start + 8),
                                          blockAlign |-> readUInt16LE(buf, start + 12),
                                          bitsPerSample |-> readUInt16LE(buf, start + 14)]])
           ELSE IF id = DATA
           THEN wavChunks(buf, [s EXCEPT !.offset = end + (size % 2),
                                         !.dataOffset = start, !.dataLength = size])
           ELSE wavChunks(buf, [s EXCEPT !.offset = end + (size % 2)])

WavThrow(msg) == [error |-> msg, dataOffset |-> -1, dataLength |-> -1, fmt |-> NoFmt]

\* The mutant of parseWavHeader that leaves out the PCM and bit-depth tests.
parseWavHeader_anyFormat(buf) ==
  IF toAscii(buf, 0, 4) # RIFF \/ toAscii(buf, 8, 12) # WAVE THEN WavThrow(ErrNotWav)
  ELSE Let(wavChunks(buf, [offset |-> 12, fmt |-> NoFmt, dataOffset |-> -1,
                           dataLength |-> -1, thrown |-> FALSE]), LAMBDA s :
         IF s.thrown THEN WavThrow(ErrRange)
         ELSE IF ~s.fmt.present THEN WavThrow(ErrNoFmt)
         ELSE IF s.dataOffset < 0 \/ s.dataLength <= 0 THEN WavThrow(ErrNoData)
         ELSE [error |-> NoError, dataOffset |-> s.dataOffset,
               dataLength |-> s.dataLength, fmt |-> s.fmt])

\* function parseWavHeader(buf): { dataOffset, dataLength, fmt }, or the
\* message of the error it throws.
parseWavHeader(buf) ==
  IF toAscii(buf, 0, 4) # RIFF \/ toAscii(buf, 8, 12) # WAVE THEN WavThrow(ErrNotWav)
  ELSE Let(wavChunks(buf, [offset |-> 12, fmt |-> NoFmt, dataOffset |-> -1,
                           dataLength |-> -1, thrown |-> FALSE]), LAMBDA s :
         IF s.thrown THEN WavThrow(ErrRange)
         ELSE IF ~s.fmt.present THEN WavThrow(ErrNoFmt)
         ELSE IF s.fmt.audioFormat # 1 THEN WavThrow(ErrNotPcm)
         ELSE IF s.fmt.bitsPerSample \notin {8, 16} THEN WavThrow(ErrBitDepth)
         ELSE IF s.dataOffset < 0 \/ s.dataLength <= 0 THEN WavThrow(ErrNoData)
         ELSE [error |-> NoError, dataOffset |-> s.dataOffset,
               dataLength |-> s.dataLength, fmt |-> s.fmt])

\* The mutant of the loop body that writes the last byte of the sample, the
\* most significant one of a 16-bit sample.
wavWrite_lastByte(buf, pl, bitIdx, dataOffset, bytesPerSample) ==
  LET bit == BitAt(pl[(bitIdx \div 8) + 1], 7 - (bitIdx % 8))
      msbByte == dataOffset + bitIdx * bytesPerSample + (bytesPerSample - 1)
  IN  BufSet(buf, msbByte, SetLsb(BufGet(buf, msbByte), bit))

\* One turn of the inner loop, for the bitIdx-th payload bit.
wavWrite(buf, pl, bitIdx, dataOffset, bytesPerSample) ==
  LET i == bitIdx \div 8
      b == 7 - (bitIdx % 8)
      bit == BitAt(pl[i + 1], b)
      sampleIndex == bitIdx
      lsbByte == dataOffset + sampleIndex * bytesPerSample
  IN  BufSet(buf, lsbByte, SetLsb(BufGet(buf, lsbByte), bit))

RECURSIVE wavLoop(_, _, _, _, _, _)
\* The turns lo .. hi-1 of the loop, in order.
wavLoop(buf, pl, lo, hi, dataOffset, bytesPerSample) ==
  IF hi <= lo THEN buf
  ELSE IF hi = lo + 1 THEN wavWrite(buf, pl, lo, dataOffset, bytesPerSample)
  ELSE Let(wavLoop(buf, pl, lo, (lo + hi) \div 2, dataOffset, bytesPerSample), LAMBDA left :
         IF Len(left) >= 0
         THEN wavLoop(left, pl, (lo + hi) \div 2, hi, dataOffset, bytesPerSample)
         ELSE left)

\* The mutant of embedLSB_WavPCM that takes the capacity to be the number
\* of data bytes, not the number of samples.
embedLSB_WavPCM_byteCapacity(buf, pl, dataOffset, dataLength, bitsPerSample) ==
  LET bytesPerSample == bitsPerSample \div 8
      capacityBits == dataLength
      needBits == bitsNeeded(Len(pl))
  IN  IF needBits > capacityBits
      THEN [ok |-> FALSE, error |-> ErrWavCapacity, needKB |-> CeilKB(needBits),
            haveKB |-> CeilKB(capacityBits), usedBits |-> 0, buf |-> buf]
      ELSE [ok |-> TRUE, error |-> NoError, needKB |-> 0, haveKB |-> 0,
            usedBits |-> needBits,
            buf |-> wavLoop(buf, pl, 0, needBits, dataOffset, bytesPerSample)]

\* function embedLSB_WavPCM(buf, payload, dataOffset, dataLength,
\* bitsPerSample): the result object and the buffer as the call leaves it.
embedLSB_WavPCM(buf, pl, dataOffset, dataLength, bitsPerSample) ==
  LET bytesPerSample == bitsPerSample \div 8
      numSamples == dataLength \div bytesPerSample
      capacityBits == numSamples
      needBits == bitsNeeded(Len(pl))
  IN  IF needBits > capacityBits
      THEN [ok |-> FALSE, error |-> ErrWavCapacity, needKB |-> CeilKB(needBits),
            haveKB |-> CeilKB(capacityBits), usedBits |-> 0, buf |-> buf]
      ELSE [ok |-> TRUE, error |-> NoError, needKB |-> 0, haveKB |-> 0,
            usedBits |-> needBits,
            buf |-> wavLoop(buf, pl, 0, needBits, dataOffset, bytesPerSample)]

---------------------------------------------------------------------------
(* Strings, UTF-8, base64.  A string is the sequence of its code points.   *)

\* Buffer.from(str, "utf8") for code points below 0x10000
Utf8Char(c) ==
  IF c < 128 THEN <<c>>
  ELSE IF c < 2048 THEN <<192 + (c \div 64), 128 + (c % 64)>>
  ELSE <<224 + (c \div 4096), 128 + ((c \div 64) % 64), 128 + (c % 64)>>

RECURSIVE Utf8Encode(_)
Utf8Encode(str) ==
  IF \A i \in 1..Len(str) : str[i] < 128 THEN str
  ELSE Utf8Char(Head(str)) \o Utf8Encode(Tail(str))

IsCont(b) == b >= 128 /\ b <= 191
IsLead2(b) == b >= 194 /\ b <= 223

\* buf.toString("utf8"): a byte below 0x80 is its own code point, a lead
\* byte C2..DF with a continuation byte is a two-byte code point, and every
\* other byte of the model's buffers (which hold no E0..F7) is malformed and
\* decodes to U+FFFD.
Utf8Decode(buf) ==
  LET n == Len(buf)
      Lead(i) == IsLead2(buf[i]) /\ i < n /\ IsCont(buf[i + 1])
      Emit(i) == IF buf[i] < 128 THEN buf[i]
                 ELSE IF Lead(i) THEN (buf[i] - 192) * 64 + (buf[i + 1] - 128)
                 ELSE IF IsCont(buf[i]) /\ i > 1 /\ Lead(i - 1) THEN -1
                 ELSE 65533
      IsChar(c) == c >= 0
  IN  IF \A i \in 1..n : buf[i] < 128 THEN buf
      ELSE SelectSeq([i \in 1..n |-> Emit(i)], IsChar)

B64 == <<65, 66, 67, 68, 69, 70, 71, 72, 73, 74, 75, 76, 77, 78, 79, 80, 81, 82, 83,
         84, 85, 86, 87, 88, 89, 90, 97, 98, 99, 100, 101, 102, 103, 104, 105, 106,
         107, 108, 109, 110, 111, 112, 113, 114, 115, 116, 117, 118, 119, 120, 121,
         122, 48, 49, 50, 51, 52, 53, 54, 55, 56, 57, 43, 47>>

RECURSIVE Base64(_)
\* buf.toString("base64"): three bytes give four characters, "=" pads
Base64(buf) ==
  IF Len(buf) = 0 THEN <<>>
  ELSE IF Len(buf) = 1
  THEN <<B64[(buf[1] \div 4) + 1], B64[(buf[1] % 4) * 16 + 1], 61, 61>>
  ELSE IF Len(buf) = 2
  THEN <<B64[(buf[1] \div 4) + 1], B64[(buf[1] % 4) * 16 + (buf[2] \div 16) + 1],
         B64[(buf[2] % 16) * 4 + 1], 61>>
  ELSE <<B64[(buf[1] \div 4) + 1], B64[(buf[1] % 4) * 16 + (buf[2] \div 16) + 1],
         B64[(buf[2] % 16) * 4 + (buf[3] \div 64) + 1], B64[(buf[3] % 64) + 1]>>
       \o Base64(SubSeq(buf, 4, Len(buf)))

\* The white space String.prototype.trim removes (those below U+10000 that
\* the model's texts use).
IsSpace(c) == c \in {9, 10, 11, 12, 13, 32, 160, 65279}

\* String(secretText).trim() is not the empty string
TrimNonEmpty(str) == \E i \in 1..Len(str) : ~IsSpace(str[i])

---------------------------------------------------------------------------
(* JSON.  A JavaScript value is a record tagged with its type.             *)

Undefined == [ty |-> "undefined", num |-> 0, str |-> <<>>, arr |-> <<>>, obj |-> <<>>]
JNum(n) == [ty |-> "num", num |-> n, str |-> <<>>, arr |-> <<>>, obj |-> <<>>]
JStr(x) == [ty |-> "str", num |-> 0, str |-> x, arr |-> <<>>, obj |-> <<>>]
JArr(a) == [ty |-> "arr", num |-> 0, str |-> <<>>, arr |-> a, obj |-> <<>>]
\* an object: its members, in order, as <<key, value>> pairs
JObj(members) == [ty |-> "obj", num |-> 0, str |-> <<>>, arr |-> <<>>, obj |-> members]

S_text == <<116, 101, 120, 116>>
S_file == <<102, 105, 108, 101>>
S_v == <<118>>
S_items == <<105, 116, 101, 109, 115>>
S_t == <<116>>
S_name == <<110, 97, 109, 101>>
S_mime == <<109, 105, 109, 101>>
S_len == <<108, 101, 110>>
S_message_txt == <<109, 101, 115, 115, 97, 103, 101, 46, 116, 120, 116>>
S_text_plain == <<116, 101, 120, 116, 47, 112, 108, 97, 105, 110>>
S_secret == <<115, 101, 99, 114, 101, 116>>
S_octet_stream == <<97, 112, 112, 108, 105, 99, 97, 116, 105, 111, 110, 47, 111, 99,
                    116, 101, 116, 45, 115, 116, 114, 101, 97, 109>>
STEGv1 == <<83, 84, 69, 71, 118, 49>>
ENCv1 == <<69, 78, 67, 118, 49>>

RECURSIVE JsonEscape(_)
\* the characters of a string as JSON.stringify writes them: a quote and a
\* backslash get a backslash (the model's strings hold no control character)
JsonEscape(str) ==
  IF str = <<>> THEN <<>>
  ELSE (IF Head(str) \in {34, 92} THEN <<92, Head(str)>> ELSE <<Head(str)>>)
       \o JsonEscape(Tail(str))

RECURSIVE Decimal(_)
\* a non-negative integer as JSON.stringify writes it
Decimal(n) == IF n < 10 THEN <<48 + n>> ELSE Decimal(n \div 10) \o <<48 + (n % 10)>>

RECURSIVE JSONstringify(_)
\* JSON.stringify(value): no white space, members in insertion order
JSONstringify(v) ==
  LET RECURSIVE Members(_)
      Members(ms) ==
        IF ms = <<>> THEN <<>>
        ELSE (<<34>> \o JsonEscape(ms[1][1]) \o <<34, 58>> \o JSONstringify(ms[1][2]))
             \o (IF Len(ms) > 1 THEN <<44>> ELSE <<>>) \o Members(Tail(ms))
      RECURSIVE Elements(_)
      Elements(es) ==
        IF es = <<>> THEN <<>>
        ELSE JSONstringify(es[1]) \o (IF Len(es) > 1 THEN <<44>> ELSE <<>>)
             \o Elements(Tail(es))
  IN  CASE v.ty = "num" -> (IF v.num < 0 THEN <<45>> \o Decimal(-v.num) ELSE Decimal(v.num))
        [] v.ty = "str" -> <<34>> \o JsonEscape(v.str) \o <<34>>
        [] v.ty = "arr" -> <<91>> \o Elements(v.arr) \o <<93>>
        [] v.ty = "obj" -> <<123>> \o Members(v.obj) \o <<125>>

JFail == [ok |-> FALSE, val |-> Undefined, next |-> 0]
JOk(v, next) == [ok |-> TRUE, val |-> v, next |-> next]

IsDigit(c) == c >= 48 /\ c <= 57

RECURSIVE JsonStringEnd(_, _)
\* the index of the quote that closes the string whose body starts at j
\* (0: none, or a character JSON does not allow in a string)
JsonStringEnd(str, j) ==
  IF j > Len(str) THEN 0
  ELSE IF str[j] = 34 THEN j
  ELSE IF str[j] = 92
  THEN IF j + 1 <= Len(str) /\ str[j + 1] \in {34, 92, 47}
       THEN JsonStringEnd(str, j + 2) ELSE 0
  ELSE IF str[j] < 32 THEN 0
  ELSE JsonStringEnd(str, j + 1)

RECURSIVE JsonUnescape(_)
JsonUnescape(str) ==
  IF \A i \in 1..Len(str) : str[i] # 92 THEN str
  ELSE IF Head(str) = 92 THEN <<str[2]>> \o JsonUnescape(SubSeq(str, 3, Len(str)))
  ELSE <<Head(str)>> \o JsonUnescape(Tail(str))

RECURSIVE JsonDigits(_, _, _)
\* the digits from index j on: their value and the index after them
JsonDigits(str, j, acc) ==
  IF j <= Len(str) /\ IsDigit(str[j]) THEN JsonDigits(str, j + 1, acc * 10 + (str[j] - 48))
  ELSE [num |-> acc, next |-> j]

\* a JSON string starting at the quote at index i
JsonString(str, i) ==
  Let(JsonStringEnd(str, i + 1), LAMBDA e :
    IF e = 0 THEN JFail ELSE JOk(JStr(JsonUnescape(SubSeq(str, i + 1, e - 1))), e + 1))

\* a JSON integer starting at index i (no leading zero, no fraction)
JsonNumber(str, i) ==
  LET neg == str[i] = 45
      d == IF neg THEN i + 1 ELSE i
  IN  IF d > Len(str) \/ ~IsDigit(str[d]) THEN JFail
      ELSE IF str[d] = 48 /\ d + 1 <= Len(str) /\ IsDigit(str[d + 1]) THEN JFail
      ELSE Let(JsonDigits(str, d, 0), LAMBDA n :
             JOk(JNum(IF neg THEN -n.num ELSE n.num), n.next))

RECURSIVE JsonValue(_, _), JsonElements(_, _, _), JsonMembers(_, _, _)
\* the JSON value that starts at index i (the grammar without white space,
\* fractions, exponents, true, false and null)
JsonValue(str, i) ==
  IF i > Len(str) THEN JFail
  ELSE IF str[i] = 34 THEN JsonString(str, i)
  ELSE IF str[i] = 45 \/ IsDigit(str[i]) THEN JsonNumber(str, i)
  ELSE IF str[i] = 91
  THEN IF i + 1 <= Len(str) /\ str[i + 1] = 93 THEN JOk(JArr(<<>>), i + 2)
       ELSE JsonElements(str, i + 1, <<>>)
  ELSE IF str[i] = 123
  THEN IF i + 1 <= Len(str) /\ str[i + 1] = 125 THEN JOk(JObj(<<>>), i + 2)
       ELSE JsonMembers(str, i + 1, <<>>)
  ELSE JFail

JsonElements(str, i, acc) ==
  Let(JsonValue(str, i), LAMBDA v :
    IF ~v.ok \/ v.next > Len(str) THEN JFail
    ELSE IF str[v.next] = 44 THEN JsonElements(str, v.next + 1, Append(acc, v.val))
    ELSE IF str[v.next] = 93 THEN JOk(JArr(Append(acc, v.val)), v.next + 1)
    ELSE JFail)

JsonMembers(str, i, acc) ==
  IF i > Len(str) \/ str[i] # 34 THEN JFail
  ELSE Let(JsonString(str, i), LAMBDA k :
         IF ~k.ok \/ k.next > Len(str) \/ str[k.next] # 58 THEN JFail
         ELSE Let(JsonValue(str, k.next + 1), LAMBDA v :
                IF ~v.ok \/ v.next > Len(str) THEN JFail
                ELSE IF str[v.next] = 44
                THEN JsonMembers(str, v.next + 1, Append(acc, <<k.val.str, v.val>>))
                ELSE IF str[v.next] = 125
                THEN JOk(JObj(Append(acc, <<k.val.str, v.val>>)), v.next + 1)
                ELSE JFail))

\* JSON.parse(text): the value, or ok = FALSE for the SyntaxError
JSONparse(str) ==
  Let(JsonValue(str, 1), LAMBDA v :
    IF v.ok /\ v.next = Len(str) + 1 THEN v ELSE JFail)

\* value.key (undefined unless value is an object with that member; of two
\* members with one key JSON.parse keeps the later)
Get(v, key) ==
  IF v.ty # "obj" THEN Undefined
  ELSE LET I == {i \in 1..Len(v.obj) : v.obj[i][1] = key}
       IN  IF I = {} THEN Undefined
           ELSE v.obj[CHOOSE i \in I : \A j \in I : j <= i][2]

\* the truth value JavaScript gives a value (x || y)
Truthy(v) ==
  CASE v.ty = "undefined" -> FALSE
    [] v.ty = "num" -> v.num # 0
    [] v.ty = "str" -> v.str # <<>>
    [] OTHER -> TRUE

---------------------------------------------------------------------------
(* packPayload and encryptIfNeeded.                                        *)

ErrNoSecret == "No secret data provided"

\* an upload field that is absent (req.files?.secretFile?.[0] undefined)
NoFile == [present |-> FALSE, originalname |-> <<>>, mimetype |-> <<>>, buffer |-> <<>>]
File(originalname, mimetype, buffer) ==
  [present |-> TRUE, originalname |-> originalname, mimetype |-> mimetype, buffer |-> buffer]

\* s || fallback for strings
OrElse(str, fallback) == IF str # <<>> THEN str ELSE fallback

\* The mutant of the items array that lists a text's length in characters.
packItems_charLen(secretText, secretFile) ==
  (IF secretText # <<>> /\ TrimNonEmpty(secretText)
   THEN << [t |-> S_text, name |-> S_message_txt, mime |-> S_text_plain,
            len |-> Len(secretText), data |-> Utf8Encode(secretText)] >>
   ELSE <<>>)
  \o
  (IF secretFile.present
   THEN << [t |-> S_file, name |-> OrElse(secretFile.originalname, S_secret),
            mime |-> OrElse(secretFile.mimetype, S_octet_stream),
            len |-> Len(secretFile.buffer), data |-> secretFile.buffer] >>
   ELSE <<>>)

\* the items array packPayload builds
packItems(secretText, secretFile) ==
  (IF secretText # <<>> /\ TrimNonEmpty(secretText)
   THEN << [t |-> S_text, name |-> S_message_txt, mime |-> S_text_plain,
            len |-> Len(Utf8Encode(secretText)), data |-> Utf8Encode(secretText)] >>
   ELSE <<>>)
  \o
  (IF secretFile.present
   THEN << [t |-> S_file, name |-> OrElse(secretFile.originalname, S_secret),
            mime |-> OrElse(secretFile.mimetype, S_octet_stream),
            len |-> Len(secretFile.buffer), data |-> secretFile.buffer] >>
   ELSE <<>>)

\* { v: 1, items: items.map(({ t, name, mime, len }) => ({ t, name, mime, len })) }
packMeta(items) ==
  JObj(<< <<S_v, JNum(1)>>,
          <<S_items, JArr([i \in 1..Len(items) |->
                             JObj(<< <<S_t, JStr(items[i].t)>>,
                                     <<S_name, JStr(items[i].name)>>,
                                     <<S_mime, JStr(items[i].mime)>>,
                                     <<S_len, JNum(items[i].len)>> >>)])>> >>)

\* the container packPayload writes for its items array: the magic, the
\* length of the metadata, the metadata, the items' data
packContainer(items) ==
  IF Len(items) = 0 THEN [error |-> ErrNoSecret, buf |-> <<>>, items |-> <<>>]
  ELSE Let(Utf8Encode(JSONstringify(packMeta(items))), LAMBDA metaBuf :
         [error |-> NoError, items |-> items,
          buf |-> Concat(<<STEGv1, u32(Len(metaBuf)), metaBuf>>
                         \o [i \in 1..Len(items) |-> items[i].data])])

\* packPayload without the trim test: a text of white space is an item
packPayload_noTrim(secretText, secretFile) ==
  packContainer((IF secretText # <<>>
                 THEN << [t |-> S_text, name |-> S_message_txt, mime |-> S_text_plain,
                          len |-> Len(Utf8Encode(secretText)),
                          data |-> Utf8Encode(secretText)] >>
                 ELSE <<>>) \o packItems(<<>>, secretFile))

\* packPayload({ secretText, secretFile }): error is the message thrown, buf
\* the container, items the array it was built from
packPayload(secretText, secretFile) == packContainer(packItems(secretText, secretFile))

RECURSIVE SeqSum(_)
SeqSum(q) == IF q = <<>> THEN 0 ELSE Head(q) + SeqSum(Tail(q))

\* crypto.scryptSync(password, salt, 32) as an ideal key derivation: the key
\* is determined by, and determines, the pair (password, salt).
scryptSync_saltOnly(password, salt) == <<<<>>, salt>>
scryptSync(password, salt) == <<password, salt>>

\* AES-256-GCM as an ideal authenticated cipher.  The cipher text is the
\* plain text under a byte-wise bijection chosen by (key, iv, position); the
\* 16-byte tag is a function of (key, iv, cipher text).
KeyStream(key, iv, i) == (SeqSum(key[1]) * 31 + SeqSum(key[2]) * 17 + SeqSum(iv) * 13 + 7 * i) % 256

GcmEncrypt(key, iv, buf) ==
  SubSeq([i \in 1..Len(buf) |-> (buf[i] + KeyStream(key, iv, i)) % 256], 1, Len(buf))

GcmDecrypt(key, iv, enc) ==
  SubSeq([i \in 1..Len(enc) |-> (enc[i] + 256 - KeyStream(key, iv, i)) % 256], 1, Len(enc))

GcmTag(key, iv, enc) ==
  LET k == SeqSum(key[1]) * 29 + SeqSum(key[2]) * 11 + SeqSum(iv) * 5
      c == SeqSum([i \in 1..Min(Len(enc), 16) |-> enc[i] * i])
  IN  [j \in 1..16 |-> (k + c + 37 * j) % 256]

\* The mutant of encryptIfNeeded without the test of the password.
encryptIfNeeded_always(buf, password, salt, iv) ==
  Let(GcmEncrypt(scryptSync(password, salt), iv, buf), LAMBDA enc :
    Concat(<<ENCv1, salt, iv, GcmTag(scryptSync(password, salt), iv, enc),
             u32(Len(enc)), enc>>))

\* encryptIfNeeded(buf, password); salt and iv are crypto.randomBytes
encryptIfNeeded(buf, password, salt, iv) ==
  IF password = <<>> THEN buf
  ELSE Let(GcmEncrypt(scryptSync(password, salt), iv, buf), LAMBDA enc :
         Concat(<<ENCv1, salt, iv, GcmTag(scryptSync(password, salt), iv, enc),
                  u32(Len(enc)), enc>>))

\* what cipher.final() authenticated in that call: (key, iv, enc, tag)
Sealed(buf, password, salt, iv) ==
  IF password = <<>> THEN {}
  ELSE Let(GcmEncrypt(scryptSync(password, salt), iv, buf), LAMBDA enc :
         { <<scryptSync(password, salt), iv, enc,
             GcmTag(scryptSync(password, salt), iv, enc)>> })

---------------------------------------------------------------------------
(* Extraction: the bit readers, extractData, parseContainer.               *)

ErrImageRead == "Out of capacity while reading."
ErrAudioRead == "Out of audio capacity while reading."
ErrNoPayload == "No valid payload found in the file."
ErrCorruptMeta == "Corrupted container metadata."
ErrPasswordRequired == "Password required to decrypt payload."
ErrAuth == "Unsupported state or unable to authenticate data"
ErrMagic == "No payload found (magic mismatch)."
\* the RangeError of Buffer.alloc(n) for n < 0, the RangeError of
\* readUInt32BE on fewer than 4 bytes, the TypeError of a value that is not
\* iterable or has no reduce
ErrAllocSize == "The value of size is out of range."
ErrBufferBounds == "Attempt to access memory outside buffer bounds"
ErrTypeError == "TypeError"

\* the reader handleExtract builds over the decoded pixels of an image
ImageReader(data, width, height) ==
  [kind |-> "image", buf |-> data, bitIdx |-> 0, capacityBits |-> width * height * 3,
   dataOffset |-> 0, bytesPerSample |-> 1]

\* The mutant of the audio reader that takes every byte of the data chunk
\* for a sample.
AudioReader_byteCapacity(wav, dataOffset, dataLength, bitsPerSample) ==
  [kind |-> "audio", buf |-> wav, bitIdx |-> 0, capacityBits |-> dataLength,
   dataOffset |-> dataOffset, bytesPerSample |-> bitsPerSample \div 8]

\* the reader handleExtract builds over a WAV file
AudioReader(wav, dataOffset, dataLength, bitsPerSample) ==
  [kind |-> "audio", buf |-> wav, bitIdx |-> 0,
   capacityBits |-> dataLength \div (bitsPerSample \div 8),
   dataOffset |-> dataOffset, bytesPerSample |-> bitsPerSample \div 8]

\* the carrier bit with index k: this.buf[base + channel] & 1, wav[lsbByteIndex] & 1
readBit(reader, k) ==
  IF reader.kind = "image"
  THEN BufGet(reader.buf, (k \div 3) * 4 + (k % 3)) % 2
  ELSE BufGet(reader.buf, reader.dataOffset + k * reader.bytesPerSample) % 2

\* readBytes(n): the n bytes after the cursor, first bit read in bit 7.  The
\* loop throws at the first bit at or after capacityBits, which it reaches
\* exactly when fewer than 8n bits are left; the cursor then stands at the
\* capacity.
readBytes(reader, n) ==
  IF n < 0 THEN [error |-> ErrAllocSize, out |-> <<>>, reader |-> reader]
  ELSE IF reader.bitIdx + 8 * n > reader.capacityBits
  THEN [error |-> IF reader.kind = "image" THEN ErrImageRead ELSE ErrAudioRead,
        out |-> <<>>,
        reader |-> [reader EXCEPT !.bitIdx = Max(reader.bitIdx, reader.capacityBits)]]
  ELSE [error |-> NoError,
        out |-> SubSeq([i \in 1..n |->
                  LET k == reader.bitIdx + 8 * (i - 1)
                  IN  readBit(reader, k) * 128 + readBit(reader, k + 1) * 64
                      + readBit(reader, k + 2) * 32 + readBit(reader, k + 3) * 16
                      + readBit(reader, k + 4) * 8 + readBit(reader, k + 5) * 4
                      + readBit(reader, k + 6) * 2 + readBit(reader, k + 7)], 1, n),
        reader |-> [reader EXCEPT !.bitIdx = reader.bitIdx + 8 * n]]

\* meta.items || []
ItemsOrEmpty(meta) == IF Truthy(Get(meta, S_items)) THEN Get(meta, S_items) ELSE JArr(<<>>)

\* it.len || 0 for a len that is a number or absent
LenOrZero(it) == IF Get(it, S_len).ty = "num" THEN Get(it, S_len).num ELSE 0

\* decipher.setAuthTag(tag); decipher.update(enc); decipher.final(): final
\* succeeds exactly for a (key, iv, cipher text, tag) that an encryption made
decipherFinal_unchecked(seals, key, iv, enc, tag) == TRUE
decipherFinal(seals, key, iv, enc, tag) == <<key, iv, enc, tag>> \in seals

Thrown(msg, reader) == [error |-> msg, buf |-> <<>>, reader |-> reader]

\* The mutant of the decryption that derives a key from any password, the
\* empty one included.
decryptCombined_noPasswordTest(combined, password, seals, reader) ==
  Let([salt |-> Slice(combined, 5, 21), iv |-> Slice(combined, 21, 33),
       tag |-> Slice(combined, 33, 49),
       enc2 |-> Slice(combined, 53, 53 + readU32BE(Slice(combined, 49, 53)))], LAMBDA e :
    IF ~decipherFinal(seals, scryptSync(password, e.salt), e.iv, e.enc2, e.tag)
    THEN Thrown(ErrAuth, reader)
    ELSE [error |-> NoError, reader |-> reader,
          buf |-> GcmDecrypt(scryptSync(password, e.salt), e.iv, e.enc2)])

\* The mutant of the decryption that tells a key that sealed nothing from a
\* cipher text or tag that does not verify.
decryptCombined_tellsWrongKey(combined, password, seals, reader) ==
  Let([salt |-> Slice(combined, 5, 21), iv |-> Slice(combined, 21, 33),
       tag |-> Slice(combined, 33, 49),
       enc2 |-> Slice(combined, 53, 53 + readU32BE(Slice(combined, 49, 53)))], LAMBDA e :
    IF password = <<>> THEN Thrown(ErrPasswordRequired, reader)
    ELSE IF \A t \in seals : t[1] # scryptSync(password, e.salt)
    THEN Thrown("Wrong password.", reader)
    ELSE IF ~decipherFinal(seals, scryptSync(password, e.salt), e.iv, e.enc2, e.tag)
    THEN Thrown(ErrAuth, reader)
    ELSE [error |-> NoError, reader |-> reader,
          buf |-> GcmDecrypt(scryptSync(password, e.salt), e.iv, e.enc2)])

\* the decryption in extractData: combined is the envelope as read
decryptCombined(combined, password, seals, reader) ==
  Let([salt |-> Slice(combined, 5, 21), iv |-> Slice(combined, 21, 33),
       tag |-> Slice(combined, 33, 49),
       enc2 |-> Slice(combined, 53, 53 + readU32BE(Slice(combined, 49, 53)))], LAMBDA e :
    IF password = <<>> THEN Thrown(ErrPasswordRequired, reader)
    ELSE IF ~decipherFinal(seals, scryptSync(password, e.salt), e.iv, e.enc2, e.tag)
    THEN Thrown(ErrAuth, reader)
    ELSE [error |-> NoError, reader |-> reader,
          buf |-> GcmDecrypt(scryptSync(password, e.salt), e.iv, e.enc2)])

\* the encrypted branch of extractData after the first five bytes
extractEncrypted(first5, rd, password, seals) ==
  Let(readBytes(rd, 48), LAMBDA headerRest :
    IF headerRest.error # NoError THEN Thrown(headerRest.error, headerRest.reader)
    ELSE Let(readBytes(headerRest.reader, readU32BE(Slice(headerRest.out, 44, 48))),
             LAMBDA enc :
           IF enc.error # NoError THEN Thrown(enc.error, enc.reader)
           ELSE decryptCombined(Concat(<<first5, headerRest.out, enc.out>>), password,
                                seals, enc.reader)))

\* the end of the plain branch: the metadata is read, the data follows
extractPlainData(magic, metaLenBuf, metaBuf) ==
  Let(JSONparse(Utf8Decode(metaBuf.out)), LAMBDA meta :
    IF ~meta.ok THEN Thrown(ErrCorruptMeta, metaBuf.reader)
    ELSE Let(ItemsOrEmpty(meta.val), LAMBDA list :
           IF list.ty # "arr" THEN Thrown(ErrTypeError, metaBuf.reader)
           ELSE Let(readBytes(metaBuf.reader,
                              SeqSum([i \in 1..Len(list.arr) |-> LenOrZero(list.arr[i])])),
                    LAMBDA dataBuf :
                  IF dataBuf.error # NoError THEN Thrown(dataBuf.error, dataBuf.reader)
                  ELSE [error |-> NoError, reader |-> dataBuf.reader,
                        buf |-> Concat(<<magic, metaLenBuf.out, metaBuf.out,
                                         dataBuf.out>>)])))

\* extractPlain comparing only the five bytes already read with the magic
extractPlain_fiveBytes(first5, rd) ==
  Let(readBytes(rd, 1), LAMBDA sixth :
    IF sixth.error # NoError THEN Thrown(sixth.error, sixth.reader)
    ELSE IF first5 # SubSeq(STEGv1, 1, 5) THEN Thrown(ErrNoPayload, sixth.reader)
    ELSE Let(readBytes(sixth.reader, 4), LAMBDA metaLenBuf :
           IF metaLenBuf.error # NoError THEN Thrown(metaLenBuf.error, metaLenBuf.reader)
           ELSE Let(readBytes(metaLenBuf.reader, readU32BE(metaLenBuf.out)), LAMBDA metaBuf :
                  IF metaBuf.error # NoError THEN Thrown(metaBuf.error, metaBuf.reader)
                  ELSE extractPlainData(first5 \o sixth.out, metaLenBuf, metaBuf))))

\* the plain branch of extractData after the first five bytes
extractPlain(first5, rd) ==
  Let(readBytes(rd, 1), LAMBDA sixth :
    IF sixth.error # NoError THEN Thrown(sixth.error, sixth.reader)
    ELSE IF first5 \o sixth.out # STEGv1 THEN Thrown(ErrNoPayload, sixth.reader)
    ELSE Let(readBytes(sixth.reader, 4), LAMBDA metaLenBuf :
           IF metaLenBuf.error # NoError THEN Thrown(metaLenBuf.error, metaLenBuf.reader)
           ELSE Let(readBytes(metaLenBuf.reader, readU32BE(metaLenBuf.out)), LAMBDA metaBuf :
                  IF metaBuf.error # NoError THEN Thrown(metaBuf.error, metaBuf.reader)
                  ELSE extractPlainData(first5 \o sixth.out, metaLenBuf, metaBuf))))

\* extractData(reader, password): error is the message thrown, buf the
\* container, reader the reader as the call left it
extractData(reader, password, seals) ==
  Let(readBytes(reader, 5), LAMBDA first5 :
    IF first5.error # NoError THEN Thrown(first5.error, first5.reader)
    ELSE IF first5.out = ENCv1
    THEN extractEncrypted(first5.out, first5.reader, password, seals)
    ELSE extractPlain(first5.out, first5.reader))

\* for (const m of list): the elements of an array, the characters of a string
Iterate(list) ==
  IF list.ty = "arr" THEN list.arr ELSE [i \in 1..Len(list.str) |-> JStr(<<list.str[i]>>)]

NaN == [nan |-> TRUE, n |-> 0]
Num(n) == [nan |-> FALSE, n |-> n]

\* off + m.len, and containerBuf.slice(off, off + m.len), for a len that is a
\* number or absent (undefined makes the sum NaN; slice reads NaN as 0)
PlusLen(off, m) ==
  IF off.nan \/ Get(m, S_len).ty # "num" THEN NaN ELSE Num(off.n + Get(m, S_len).num)

SliceItem(containerBuf, off, m) ==
  Slice(containerBuf, IF off.nan THEN 0 ELSE off.n,
        IF PlusLen(off, m).nan THEN 0 ELSE PlusLen(off, m).n)

\* the test that makes an item a text item
IsTextItem(m) == Get(m, S_t) = JStr(S_text) \/ Get(m, S_mime) = JStr(S_text_plain)

\* the object parseContainer pushes for metadata entry m with bytes data
parseItem(m, data) ==
  IF IsTextItem(m)
  THEN [type |-> "text", name |-> Get(m, S_name), mime |-> Get(m, S_mime),
        text |-> Utf8Decode(data), base64 |-> <<>>]
  ELSE [type |-> "file", name |-> Get(m, S_name), mime |-> Get(m, S_mime),
        text |-> <<>>, base64 |-> Base64(data)]

RECURSIVE parseItems(_, _, _)
\* the loop of parseContainer over the metadata entries from offset off
parseItems(containerBuf, ms, off) ==
  IF ms = <<>> THEN <<>>
  ELSE << parseItem(Head(ms), SliceItem(containerBuf, off, Head(ms))) >>
       \o parseItems(containerBuf, Tail(ms), PlusLen(off, Head(ms)))

\* parseContainer after the metadata is parsed
parseMeta(containerBuf, metaLen, meta) ==
  IF ~meta.ok THEN [error |-> ErrCorruptMeta, items |-> <<>>]
  ELSE Let(ItemsOrEmpty(meta.val), LAMBDA list :
         IF list.ty \notin {"arr", "str"} THEN [error |-> ErrTypeError, items |-> <<>>]
         ELSE Let(Iterate(list), LAMBDA ms :
                [error |-> NoError,
                 items |-> parseItems(containerBuf, ms, Num(10 + metaLen))]))

\* parseContainer(containerBuf): error is the message thrown, items the array
parseContainer(containerBuf) ==
  IF Slice(containerBuf, 0, 6) # STEGv1 THEN [error |-> ErrMagic, items |-> <<>>]
  ELSE IF Len(Slice(containerBuf, 6, 10)) < 4 THEN [error |-> ErrBufferBounds, items |-> <<>>]
  ELSE Let(readU32BE(Slice(containerBuf, 6, 10)), LAMBDA metaLen :
         Let(JSONparse(Utf8Decode(Slice(containerBuf, 10, 10 + metaLen))), LAMBDA meta :
           parseMeta(containerBuf, metaLen, meta)))

---------------------------------------------------------------------------
(* The request handlers.                                                   *)

ErrCoverRequired == "Cover file is required"
ErrSecretRequired == "At least one secret is required (text or file)"
ErrUnsupportedCover == "Unsupported cover file type"
ErrStegoRequired == "Stego file is required"
ErrUnsupportedStego == "Unsupported stego file type"
ErrTranscode == "ffmpeg exited with code 1"

\* An upload (req.files.<field>[0]) or a file sent back.  For an image the
\* buffer holds the pixels sharp decodes it to (ensureAlpha().raw(): RGBA,
\* width x height), which is also what the PNG sent back decodes to.
NoUpload == [present |-> FALSE, mimetype |-> "", width |-> 0, height |-> 0, buffer |-> <<>>]
Image(width, height, data) ==
  [present |-> TRUE, mimetype |-> "image/png", width |-> width, height |-> height,
   buffer |-> data]
Audio(mimetype, buf) ==
  [present |-> TRUE, mimetype |-> mimetype, width |-> 0, height |-> 0, buffer |-> buf]

\* mimetype.startsWith("image/"), mimetype.startsWith("audio/")
IsImage(mimetype) == mimetype \in {"image/png", "image/jpeg"}
IsAudio(mimetype) == mimetype \in {"audio/wav", "audio/mpeg"}

NotPacked == [error |-> "not called", buf |-> <<>>, items |-> <<>>]

\* res.status(status).json({ error })
ErrorResponse(status, error) ==
  [status |-> status, error |-> error, ok |-> FALSE, items |-> <<>>, file |-> NoUpload]
\* res.send(file)
FileResponse(file) ==
  [status |-> 200, error |-> NoError, ok |-> FALSE, items |-> <<>>, file |-> file]
\* res.json({ ok: true, items })
ItemsResponse(items) ==
  [status |-> 200, error |-> NoError, ok |-> TRUE, items |-> items, file |-> NoUpload]

\* what a run of the embed handler leaves: the response, what packPayload
\* and encryptIfNeeded returned, and the cover upload's buffer afterwards
EmbedOutcome(response, packed, pl, coverBuf) ==
  [res |-> response, packed |-> packed, payload |-> pl, coverBuf |-> coverBuf]

\* the image branch of handleEmbed
embedImageCover(coverFile, packed, pl) ==
  Let(embedLSB_RGBA(coverFile.buffer, coverFile.width, coverFile.height, pl), LAMBDA e :
    IF e.error # NoError
    THEN EmbedOutcome(ErrorResponse(400, e.error), packed, pl, coverFile.buffer)
    ELSE EmbedOutcome(FileResponse(Image(coverFile.width, coverFile.height, e.buf)),
                      packed, pl, coverFile.buffer))

\* The mutant of the audio branch that sends the buffer whatever
\* embedLSB_WavPCM returned.
embedAudioCover_sendsAnyway(coverFile, packed, pl) ==
  Let(parseWavHeader(coverFile.buffer), LAMBDA h :
    IF h.error # NoError
    THEN EmbedOutcome(ErrorResponse(400, h.error), packed, pl, coverFile.buffer)
    ELSE Let(embedLSB_WavPCM(coverFile.buffer, pl, h.dataOffset, h.dataLength,
                             h.fmt.bitsPerSample), LAMBDA e :
           EmbedOutcome(FileResponse(Audio("audio/wav", e.buf)), packed, pl, e.buf)))

\* the audio branch of handleEmbed: processAudioSimple returns its argument,
\* so the embed writes into the upload's own buffer
embedAudioCover(coverFile, packed, pl) ==
  Let(parseWavHeader(coverFile.buffer), LAMBDA h :
    IF h.error # NoError
    THEN EmbedOutcome(ErrorResponse(400, h.error), packed, pl, coverFile.buffer)
    ELSE Let(embedLSB_WavPCM(coverFile.buffer, pl, h.dataOffset, h.dataLength,
                             h.fmt.bitsPerSample), LAMBDA e :
           IF e.error # NoError
           THEN EmbedOutcome(ErrorResponse(400, e.error), packed, pl, e.buf)
           ELSE EmbedOutcome(FileResponse(Audio("audio/wav", e.buf)), packed, pl, e.buf)))

\* handleEmbed after packPayload: encryptIfNeeded, then the cover's branch
embedPacked(coverFile, packed, pl) ==
  IF IsImage(coverFile.mimetype) THEN embedImageCover(coverFile, packed, pl)
  ELSE IF IsAudio(coverFile.mimetype) THEN embedAudioCover(coverFile, packed, pl)
  ELSE EmbedOutcome(ErrorResponse(400, ErrUnsupportedCover), packed, pl, coverFile.buffer)

\* handleEmbed; salt and iv are the random bytes encryptIfNeeded draws
handleEmbed(coverFile, secretText, secretFile, password, salt, iv) ==
  IF ~coverFile.present
  THEN EmbedOutcome(ErrorResponse(400, ErrCoverRequired), NotPacked, <<>>, coverFile.buffer)
  ELSE IF secretText = <<>> /\ ~secretFile.present
  THEN EmbedOutcome(ErrorResponse(400, ErrSecretRequired), NotPacked, <<>>, coverFile.buffer)
  ELSE Let(packPayload(secretText, secretFile), LAMBDA packed :
         IF packed.error # NoError
         THEN EmbedOutcome(ErrorResponse(500, packed.error), packed, <<>>, coverFile.buffer)
         ELSE embedPacked(coverFile, packed, encryptIfNeeded(packed.buf, password, salt, iv)))

\* the embed into wavBuf in POST /api/embed of backend/server.js
apiEmbedWav(coverFile, packed, pl, wavBuf) ==
  Let(parseWavHeader(wavBuf), LAMBDA h :
    IF h.error # NoError
    THEN EmbedOutcome(ErrorResponse(500, h.error), packed, pl, coverFile.buffer)
    ELSE Let(embedLSB_WavPCM(wavBuf, pl, h.dataOffset, h.dataLength, h.fmt.bitsPerSample),
             LAMBDA e :
           IF e.error # NoError
           THEN EmbedOutcome(ErrorResponse(400, e.error), packed, pl, coverFile.buffer)
           ELSE EmbedOutcome(FileResponse(Audio("audio/wav", e.buf)), packed, pl,
                             coverFile.buffer)))

\* the audio branch of POST /api/embed in backend/server.js: a cover that is
\* not a PCM WAV file of 8 or 16 bits goes through transcodeToPcmWav, whose
\* outcome (ffmpeg's) is transcoded; the embed writes into a copy
apiEmbedAudioCover(coverFile, packed, pl, transcoded) ==
  Let(toAscii(coverFile.buffer, 0, 4) = RIFF /\ toAscii(coverFile.buffer, 8, 12) = WAVE
      /\ parseWavHeader(coverFile.buffer).error = NoError, LAMBDA isPcm8or16 :
    IF isPcm8or16 THEN apiEmbedWav(coverFile, packed, pl, coverFile.buffer)
    ELSE IF transcoded.error # NoError
    THEN EmbedOutcome(ErrorResponse(500, transcoded.error), packed, pl, coverFile.buffer)
    ELSE apiEmbedWav(coverFile, packed, pl, transcoded.buf))

\* POST /api/embed after packPayload in backend/server.js
apiEmbedPacked(coverFile, packed, pl, transcoded) ==
  IF IsImage(coverFile.mimetype) THEN embedImageCover(coverFile, packed, pl)
  ELSE IF IsAudio(coverFile.mimetype) THEN apiEmbedAudioCover(coverFile, packed, pl, transcoded)
  ELSE EmbedOutcome(ErrorResponse(400, ErrUnsupportedCover), packed, pl, coverFile.buffer)

\* POST /api/embed in backend/server.js
apiEmbed(coverFile, secretText, secretFile, password, salt, iv, transcoded) ==
  IF ~coverFile.present
  THEN EmbedOutcome(ErrorResponse(400, ErrCoverRequired), NotPacked, <<>>, coverFile.buffer)
  ELSE IF secretText = <<>> /\ ~secretFile.present
  THEN EmbedOutcome(ErrorResponse(400, ErrSecretRequired), NotPacked, <<>>, coverFile.buffer)
  ELSE Let(packPayload(secretText, secretFile), LAMBDA packed :
         IF packed.error # NoError
         THEN EmbedOutcome(ErrorResponse(500, packed.error), packed, <<>>, coverFile.buffer)
         ELSE apiEmbedPacked(coverFile, packed,
                             encryptIfNeeded(packed.buf, password, salt, iv), transcoded))

\* extractData, then parseContainer, then the response
extractResponse(reader, password, seals) ==
  Let(extractData(reader, password, seals), LAMBDA c :
    IF c.error # NoError THEN ErrorResponse(500, c.error)
    ELSE Let(parseContainer(c.buf), LAMBDA p :
           IF p.error # NoError THEN ErrorResponse(500, p.error)
           ELSE ItemsResponse(p.items)))

\* handleExtract (POST /api/extract, /api/decode)
handleExtract(upload, password, seals) ==
  IF ~upload.present THEN ErrorResponse(400, ErrStegoRequired)
  ELSE IF IsImage(upload.mimetype)
  THEN extractResponse(ImageReader(upload.buffer, upload.width, upload.height), password, seals)
  ELSE IF IsAudio(upload.mimetype)
  THEN Let(parseWavHeader(upload.buffer), LAMBDA h :
         IF h.error # NoError THEN ErrorResponse(500, h.error)
         ELSE extractResponse(AudioReader(upload.buffer, h.dataOffset, h.dataLength,
                                          h.fmt.bitsPerSample), password, seals))
  ELSE ErrorResponse(400, ErrUnsupportedStego)

---------------------------------------------------------------------------
(* Carriers and payloads of the codec specification.                       *)

\* n bytes that differ from place to place: (seed + 101 i) mod 256
Fill(n, seed) == SubSeq([i \in 1..n |-> (seed + 101 * i) % 256], 1, n)

u32le(n) == << n % 256, (n \div 256) % 256, (n \div 65536) % 256, (n \div 16777216) % 256 >>
u16le(n) == << n % 256, (n \div 256) % 256 >>

\* A RIFF/WAVE file: a 16-byte fmt chunk, then a data chunk.
MkWavFmt(audioFormat, channels, sampleRate, bitsPerSample, data) ==
  LET blockAlign == channels * Max(bitsPerSample \div 8, 1)
  IN  RIFF \o u32le(36 + Len(data)) \o WAVE
        \o FMT_ \o u32le(16) \o u16le(audioFormat) \o u16le(channels) \o u32le(sampleRate)
        \o u32le(sampleRate * blockAlign) \o u16le(blockAlign) \o u16le(bitsPerSample)
        \o DATA \o u32le(Len(data)) \o data

\* the same, mono at 8000 Hz
MkWav(audioFormat, bitsPerSample, data) == MkWavFmt(audioFormat, 1, 8000, bitsPerSample, data)

\* A RIFF/WAVE file with a LIST chunk of odd size (and its pad byte) before
\* the data chunk and a cue chunk after it.
MkWavChunks(bitsPerSample, data) ==
  LET pad == IF Len(data) % 2 = 1 THEN <<0>> ELSE <<>>
  IN  RIFF \o u32le(56 + Len(data) + Len(pad)) \o WAVE
        \o FMT_ \o u32le(16) \o u16le(1) \o u16le(1) \o u32le(8000)
        \o u32le(8000 * (bitsPerSample \div 8)) \o u16le(bitsPerSample \div 8)
        \o u16le(bitsPerSample)
        \o <<76, 73, 83, 84>> \o u32le(3) \o <<201, 202, 203>> \o <<0>>
        \o DATA \o u32le(Len(data)) \o data \o pad
        \o <<99, 117, 101, 32>> \o u32le(4) \o <<211, 212, 213, 214>>

CoverSeeds == {0, 255}
PayloadSeeds == {90, 165}

CodecImages ==
  { [kind |-> "image", width |-> w, height |-> h, dataLength |-> 0, bits |-> 0,
      buf |-> Fill(w * h * 4, sd)] :
      w \in 1..MaxWidth, h \in 1..MaxHeight, sd \in CoverSeeds }

CodecWavs ==
  { [kind |-> "audio", width |-> 0, height |-> 0, dataLength |-> n, bits |-> bits,
      buf |-> MkWav(1, bits, Fill(n, sd))] :
      bits \in {8, 16}, n \in 1..MaxDataLen, sd \in CoverSeeds }
  \cup
  { [kind |-> "audio", width |-> 0, height |-> 0, dataLength |-> n, bits |-> bits,
      buf |-> MkWavChunks(bits, Fill(n, sd))] :
      bits \in {8, 16}, n \in (MaxDataLen - 1)..MaxDataLen, sd \in CoverSeeds }

CodecPayloads == { Fill(n, sd) : n \in 0..MaxPayloadLen, sd \in PayloadSeeds }

NoResult == [ok |-> FALSE, error |-> "not called", needKB |-> 0, haveKB |-> 0, usedBits |-> 0]

Result(e) == [ok |-> e.ok, error |-> e.error, needKB |-> e.needKB, haveKB |-> e.haveKB,
              usedBits |-> e.usedBits]

NoSecret == [text |-> <<>>, file |-> NoFile, password |-> <<>>]
NotParsed == [error |-> "not called", items |-> <<>>]
NoResponse == [ErrorResponse(0, "no request") EXCEPT !.ok = FALSE]
NoTamper == [on |-> FALSE, at |-> 0, part |-> "none"]
NoRequest == [op |-> "none", handler |-> "none", password |-> <<>>]

InitCodec ==
  /\ carrier \in CodecImages \cup CodecWavs
  /\ payload \in CodecPayloads
  /\ r = NoResult
  /\ before = carrier.buf
  /\ secret = NoSecret
  /\ container = NotPacked
  /\ parsed = NotParsed
  /\ cover = NoUpload
  /\ stego = NoUpload
  /\ res = NoResponse
  /\ sealed = {}
  /\ tampered = NoTamper
  /\ req = NoRequest
  /\ pc = "codec"
  /\ disk = {} /\ calls = <<>>

\* embedLSB_RGBA(buf, info.width, info.height, payload) on the raw pixels
EmbedImage ==
  /\ carrier.kind = "image"
  /\ r = NoResult
  /\ LET e == embedLSB_RGBA(carrier.buf, carrier.width, carrier.height, payload)
     IN  /\ r' = Result(e)
         /\ carrier' = [carrier EXCEPT !.buf = e.buf]
  /\ UNCHANGED <<disk, calls, payload, before, packVars, serverVars>>

\* parseWavHeader(wavBuf), then embedLSB_WavPCM(wavBuf, payload, dataOffset,
\* dataLength, fmt.bitsPerSample) on the file's bytes
EmbedAudio ==
  /\ carrier.kind = "audio"
  /\ r = NoResult
  /\ LET h == parseWavHeader(carrier.buf)
     IN  IF h.error # NoError
         THEN /\ r' = [NoResult EXCEPT !.error = h.error]
              /\ UNCHANGED carrier
         ELSE LET e == embedLSB_WavPCM(carrier.buf, payload, h.dataOffset, h.dataLength,
                                       h.fmt.bitsPerSample)
              IN  /\ r' = Result(e)
                  /\ carrier' = [carrier EXCEPT !.buf = e.buf]
  /\ UNCHANGED <<disk, calls, payload, before, packVars, serverVars>>

NextCodec == EmbedImage \/ EmbedAudio

SpecCodec == InitCodec /\ [][NextCodec]_vars

Called == r.error # "not called"

---------------------------------------------------------------------------
(* Claims about the embed functions (SpecCodec).                           *)

\* The capacity the claims give the carrier: width*height*3 for an image,
\* floor(dataLength / bytesPerSample) for a WAV file.
CapacityBits ==
  IF carrier.kind = "image" THEN carrier.width * carrier.height * 3
  ELSE carrier.dataLength \div (carrier.bits \div 8)

CapacityErrors == {ErrImageCapacity, ErrWavCapacity}

\* C2: embedLSB_RGBA and embedLSB_WavPCM succeed exactly when
\* 8 x payload length <= capacityBits, and otherwise fail with the capacity
\* error of the carrier's kind.
C2_CapacityBoundary ==
  Called =>
    /\ r.ok <=> 8 * Len(payload) <= CapacityBits
    /\ r.ok => r.error = NoError /\ r.usedBits = 8 * Len(payload)
    /\ ~r.ok => r.error = (IF carrier.kind = "image" THEN ErrImageCapacity
                           ELSE ErrWavCapacity)

\* An embed that succeeded with the payload filling the carrier to the bit.
C2_Witness ==
  /\ Called /\ r.ok
  /\ Len(payload) > 0
  /\ 8 * Len(payload) = CapacityBits

\* C3: when an embed fails with a capacity error, every byte of the carrier
\* buffer has the value it had before the call.
C3_CapacityFailureLeavesCarrier ==
  (Called /\ r.error \in CapacityErrors) => carrier.buf = before

\* An embed that failed for capacity with a payload whose first bit differs
\* from the least-significant bit of the carrier's first writable byte.
C3_Witness ==
  /\ Called /\ r.error \in CapacityErrors
  /\ Len(payload) > 0
  /\ LET first == IF carrier.kind = "image" THEN 1 ELSE 45
     IN  before[first] % 2 # BitAt(payload[1], 7)

---------------------------------------------------------------------------
(* SpecPack: packPayload and parseContainer on small secrets and on        *)
(* hand-made containers.                                                   *)

T_hi == <<104, 105>>
T_blank == <<32, 9>>
T_e_acute == <<233>>
N_a_bin == <<97, 46, 98, 105, 110>>
N_n_txt == <<110, 46, 116, 120, 116>>
N_quote == <<97, 34, 92, 98>>
P_pw == <<112, 119>>
P_px == <<112, 120>>

PackTexts == {<<>>, T_blank, T_hi, T_e_acute}

PackFiles ==
  { NoFile,
    File(N_n_txt, S_text_plain, <<104, 255>>),
    File(N_n_txt, S_text_plain, T_hi),
    File(<<>>, <<>>, <<7>>),
    File(N_quote, S_octet_stream, <<>>) }
  \cup { File(N_a_bin, S_octet_stream, Fill(n, sd)) : n \in 1..MaxFileLen, sd \in PayloadSeeds }

PackSecrets == { [text |-> t, file |-> f, password |-> <<>>] : t \in PackTexts, f \in PackFiles }

\* a metadata entry as packMeta reads it
Entry(t, name, mime, len) == [t |-> t, name |-> name, mime |-> mime, len |-> len]

\* a container written by hand: the magic, a length field that overstates the
\* metadata by extra bytes, the metadata, the data
Crafted(meta, extra, data) ==
  LET metaBuf == Utf8Encode(JSONstringify(meta))
  IN  Concat(<<STEGv1, u32(Len(metaBuf) + extra), metaBuf, data>>)

\* a container that lost its last n bytes
Truncated(buf, n) == SubSeq(buf, 1, Len(buf) - n)

CraftedContainers ==
  { Crafted(packMeta(<<Entry(S_file, N_a_bin, S_octet_stream, 10)>>), 0, <<1, 2, 3>>),
    Crafted(packMeta(<<Entry(S_text, S_message_txt, S_text_plain, 2),
                       Entry(S_file, N_a_bin, S_octet_stream, 5)>>), 0, T_hi \o <<9>>),
    Crafted(packMeta(<<Entry(S_file, N_a_bin, S_octet_stream, 3)>>), 0, <<1, 2, 3>>),
    Crafted(packMeta(<<>>), 50, <<>>),
    Crafted(packMeta(<<Entry(S_file, N_a_bin, S_octet_stream, 0)>>), 7, <<>>),
    Crafted(packMeta(<<Entry(S_file, N_a_bin, S_octet_stream, 3)>>), 3, <<1, 2, 3>>),
    Crafted(packMeta(<<Entry(S_file, N_a_bin, S_octet_stream, -2)>>), 0, <<1, 2, 3>>),
    Crafted(JObj(<< <<S_items, JArr(<< JObj(<< <<S_t, JStr(S_file)>> >>) >>)>> >>), 0, <<1, 2>>),
    Crafted(JObj(<<>>), 0, <<>>),
    Crafted(JNum(5), 0, <<>>),
    Truncated(Crafted(JObj(<<>>), 0, <<>>), 4),
    Truncated(packPayload(T_hi, File(N_a_bin, S_octet_stream, <<0, 255, 16>>)).buf, 2),
    <<1, 2, 3>> }

InitPack ==
  /\ \/ secret \in PackSecrets /\ container = NotPacked /\ pc = "pack"
     \/ /\ secret = NoSecret
        /\ container \in { [error |-> NoError, buf |-> c, items |-> <<>>] :
                           c \in CraftedContainers }
        /\ pc = "crafted"
  /\ parsed = NotParsed
  /\ carrier = NoUpload /\ payload = <<>> /\ r = NoResult /\ before = <<>>
  /\ cover = NoUpload /\ stego = NoUpload /\ res = NoResponse
  /\ sealed = {} /\ tampered = NoTamper /\ req = NoRequest
  /\ disk = {} /\ calls = <<>>

\* packPayload({ secretText, secretFile })
Pack ==
  /\ container = NotPacked
  /\ container' = packPayload(secret.text, secret.file)
  /\ UNCHANGED <<disk, calls, codecVars, secret, parsed, serverVars>>

\* parseContainer(containerBuf)
Parse ==
  /\ container.error = NoError
  /\ parsed = NotParsed
  /\ parsed' = parseContainer(container.buf)
  /\ UNCHANGED <<disk, calls, codecVars, secret, container, serverVars>>

NextPack == Pack \/ Parse

SpecPack == InitPack /\ [][NextPack]_vars

---------------------------------------------------------------------------
(* Spec: the request handlers end to end.  A client sends one embed        *)
(* request; whoever holds the stego file may change one byte of the        *)
(* envelope in it; a client sends one extract request, for that file or    *)
(* for a file of its own.                                                  *)

ImgBig == Image(MaxCoverWidth, MaxCoverHeight, Fill(MaxCoverWidth * MaxCoverHeight * 4, 0))
ImgSmall == Image(MaxCoverWidth, 1, Fill(MaxCoverWidth * 4, 255))
ImgTiny == Image(2, 2, Fill(16, 0))
Wav8Big == Audio("audio/wav", MkWav(1, 8, Fill(MaxCoverSamples, 0)))
Wav16Big == Audio("audio/wav", MkWav(1, 16, Fill(2 * MaxCoverSamples, 255)))
WavSmall == Audio("audio/wav", MkWav(1, 16, Fill(65, 0)))
WavFloat == Audio("audio/wav", MkWav(3, 32, Fill(64, 0)))
Wav24 == Audio("audio/wav", MkWav(1, 24, Fill(63, 0)))
Mp3 == Audio("audio/mpeg", Fill(40, 7))
Zip == [present |-> TRUE, mimetype |-> "application/zip", width |-> 0, height |-> 0,
        buffer |-> Fill(20, 7)]

Covers == {ImgBig, ImgSmall, Wav8Big, Wav16Big, WavSmall, WavFloat, Wav24, Mp3, Zip, NoUpload}
ApiCovers == {Wav16Big, WavSmall, WavFloat, Wav24, Mp3, ImgSmall}

Texts == {<<>>, T_blank, T_hi, T_e_acute}
Files == { NoFile,
           File(N_a_bin, S_octet_stream, <<0, 255, 16>>),
           File(N_n_txt, S_text_plain, <<104, 255>>),
           File(<<>>, <<>>, <<7>>) }
ApiFiles == { NoFile, File(N_a_bin, S_octet_stream, <<0, 255, 16>>) }
EmbedPasswords == {<<>>, P_pw}
ExtractPasswords == {<<>>, P_pw, P_px}

\* crypto.randomBytes(16), crypto.randomBytes(12)
Salts == {Fill(16, 3)}
Ivs == {Fill(12, 9)}

\* what transcodeToPcmWav can give: ffmpeg fails, before or after it has
\* created its output file, or it writes 16-bit PCM, 44100 Hz, two channels
TranscodeOutcomes ==
  { [error |-> ErrTranscode, buf |-> <<>>, wrote |-> FALSE],
    [error |-> ErrTranscode, buf |-> <<>>, wrote |-> TRUE],
    [error |-> NoError, wrote |-> TRUE,
     buf |-> MkWavFmt(1, 2, 44100, 16, Fill(2 * MaxCoverSamples, 17))] }

\* the files of os.tmpdir() that transcodeToPcmWav has written and not
\* unlinked when it returns or throws: it writes <uuid>.in, ffmpeg writes
\* <uuid>.wav, and the two unlinks come after the await of ffmpeg, so a
\* rejection skips them
TempIn == "uuid.in"
TempOut == "uuid.wav"
transcodeLeaves(transcoded) ==
  IF transcoded.error = NoError THEN {}
  ELSE IF transcoded.wrote THEN {TempIn, TempOut}
  ELSE {TempIn}

\* looksWav && isPcm8or16 in POST /api/embed of backend/server.js
isPcm8or16(buf) ==
  /\ toAscii(buf, 0, 4) = RIFF /\ toAscii(buf, 8, 12) = WAVE
  /\ parseWavHeader(buf).error = NoError

\* the temporary files POST /api/embed of backend/server.js leaves: it calls
\* transcodeToPcmWav for an audio cover that is not PCM WAV of 8 or 16 bits,
\* once the secret is packed and encrypted
apiEmbedLeaves(coverFile, secretText, secretFile, transcoded) ==
  IF /\ coverFile.present
     /\ ~(secretText = <<>> /\ ~secretFile.present)
     /\ packPayload(secretText, secretFile).error = NoError
     /\ ~IsImage(coverFile.mimetype) /\ IsAudio(coverFile.mimetype)
     /\ ~isPcm8or16(coverFile.buffer)
  THEN transcodeLeaves(transcoded)
  ELSE {}

\* an image whose least-significant bits spell the given bytes
Spelling(bytes) ==
  Image(MaxCoverWidth, MaxCoverHeight,
        embedLSB_RGBA(ImgBig.buffer, MaxCoverWidth, MaxCoverHeight, bytes).buf)

\* files a client may send to extract that no embed request produced
Uploads ==
  { ImgBig, ImgSmall, ImgTiny, Wav8Big, WavSmall, WavFloat, Zip, NoUpload,
    Spelling(packPayload(T_hi, NoFile).buf),
    Spelling(Crafted(JObj(<<>>), 0, <<>>)),
    Spelling(Crafted(packMeta(<<Entry(S_file, N_a_bin, S_octet_stream, 3),
                                Entry(S_file, N_a_bin, S_octet_stream, -3)>>), 0, <<>>)),
    Spelling(Concat(<<ENCv1, Fill(44, 5), u32(3), <<1, 2, 3>> >>)),
    Spelling(Concat(<<ENCv1, Fill(44, 5), u32(999)>>)),
    Spelling(Concat(<<STEGv1, u32(4), T_hi, T_hi>>)),
    Spelling(Concat(<<SubSeq(STEGv1, 1, 5), <<50>>, u32(2), <<123, 125>> >>)) }

Init ==
  /\ carrier = NoUpload /\ payload = <<>> /\ r = NoResult /\ before = <<>>
  /\ secret = NoSecret /\ container = NotPacked /\ parsed = NotParsed
  /\ cover = NoUpload /\ stego = NoUpload /\ res = NoResponse
  /\ sealed = {} /\ tampered = NoTamper /\ req = NoRequest
  /\ pc = "start"
  /\ disk = {} /\ calls = <<>>

\* the state an embed request leaves
Embedded(handler, coverFile, t, f, p, salt, iv, o) ==
  /\ secret' = [text |-> t, file |-> f, password |-> p]
  /\ container' = o.packed
  /\ payload' = o.payload
  /\ before' = coverFile.buffer
  /\ cover' = [coverFile EXCEPT !.buffer = o.coverBuf]
  /\ stego' = o.res.file
  /\ res' = o.res
  /\ sealed' = sealed \cup (IF o.payload # <<>> THEN Sealed(o.packed.buf, p, salt, iv) ELSE {})
  /\ req' = [op |-> "embed", handler |-> handler, password |-> p]
  /\ pc' = "embedded"
  /\ UNCHANGED <<carrier, r, parsed, tampered, calls>>

\* POST /api/embed, /api/encode (handleEmbed)
Embed ==
  /\ pc = "start"
  /\ \E coverFile \in Covers, t \in Texts, f \in Files, p \in EmbedPasswords,
        salt \in Salts, iv \in Ivs :
       Embedded("handleEmbed", coverFile, t, f, p, salt, iv,
                handleEmbed(coverFile, t, f, p, salt, iv))
  /\ UNCHANGED disk

\* POST /api/embed of backend/server.js
ApiEmbed ==
  /\ pc = "start"
  /\ \E coverFile \in ApiCovers, f \in ApiFiles, p \in EmbedPasswords,
        salt \in Salts, iv \in Ivs, transcoded \in TranscodeOutcomes :
       /\ Embedded("apiEmbed", coverFile, T_hi, f, p, salt, iv,
                   apiEmbed(coverFile, T_hi, f, p, salt, iv, transcoded))
       /\ disk' = disk \cup apiEmbedLeaves(coverFile, T_hi, f, transcoded)

\* the envelope offsets a holder of the file changes: each byte of the tag,
\* and the first, the middle and the last byte of the cipher text
TamperAt(envelope) ==
  LET n == Len(envelope) - 53
  IN  [tag |-> 33..48, ct |-> {53, 53 + (n \div 2), 53 + n - 1}]

\* the file with envelope byte number at set to v
Poke(file, envelope, at, v) ==
  LET pl == [envelope EXCEPT ![at + 1] = v]
      h == parseWavHeader(file.buffer)
  IN  IF IsImage(file.mimetype)
      THEN [file EXCEPT !.buffer = rgbaLoop(file.buffer, pl, 8 * at, 8 * at + 8)]
      ELSE [file EXCEPT !.buffer = wavLoop(file.buffer, pl, 8 * at, 8 * at + 8,
                                           h.dataOffset, h.fmt.bitsPerSample \div 8)]

\* one byte of the tag or of the cipher text in the stego file is changed
Tamper ==
  /\ pc = "embedded"
  /\ stego.present
  /\ secret.password # <<>>
  /\ ~tampered.on
  /\ \E part \in {"tag", "ct"}, d \in {1, 128} :
       \E at \in TamperAt(payload)[part] :
         /\ stego' = Poke(stego, payload, at, (payload[at + 1] + d) % 256)
         /\ tampered' = [on |-> TRUE, at |-> at, part |-> part]
  /\ UNCHANGED <<codecVars, packVars, cover, res, sealed, req, pc, disk, calls>>

\* POST /api/extract, /api/decode (handleExtract) for the stego file
Extract ==
  /\ pc = "embedded"
  /\ stego.present
  /\ \E q \in ExtractPasswords :
       /\ res' = handleExtract(stego, q, sealed)
       /\ req' = [op |-> "extract", handler |-> "handleExtract", password |-> q]
  /\ pc' = "extracted"
  /\ UNCHANGED <<codecVars, packVars, cover, stego, sealed, tampered, disk, calls>>

\* POST /api/extract for a file that no embed request produced
ExtractUpload ==
  /\ pc = "start"
  /\ \E upload \in Uploads, q \in ExtractPasswords :
       /\ stego' = upload
       /\ res' = handleExtract(upload, q, sealed)
       /\ req' = [op |-> "extract", handler |-> "handleExtract", password |-> q]
  /\ pc' = "uploaded"
  /\ UNCHANGED <<codecVars, packVars, cover, sealed, tampered, disk, calls>>

Next == Embed \/ ApiEmbed \/ Tamper \/ Extract \/ ExtractUpload

Spec == Init /\ [][Next]_vars

---------------------------------------------------------------------------
(* Claims about packPayload and parseContainer (SpecPack).                 *)

PackCalled == pc = "pack" /\ container.error # "not called"
ParseCalled == parsed.error # "not called"

\* the request has both a text secret (one that packPayload packs) and a file
BothSecrets == secret.text # <<>> /\ TrimNonEmpty(secret.text) /\ secret.file.present

\* the bytes a returned item stands for: the UTF-8 bytes of its text, or the
\* bytes its base64 encodes (base64 is one-to-one, so the encodings are
\* compared)
SameBytes(item, data) ==
  IF item.type = "text" THEN Utf8Encode(item.text) = data
  ELSE item.base64 = Base64(data)

\* the returned item equals the packed one in kind, name, mime type, bytes
SameItem(item, packedItem) ==
  /\ item.type = (IF packedItem.t = S_text THEN "text" ELSE "file")
  /\ item.name = JStr(packedItem.name)
  /\ item.mime = JStr(packedItem.mime)
  /\ SameBytes(item, packedItem.data)

\* C7: packPayload with both a text and a file secret writes the metadata
\* entries in the order [text, file] and the data as the text bytes followed
\* by the file bytes, and parseContainer on that container returns exactly
\* two items, the text first and the file second, with the names, mime types
\* and bytes that were packed.
C7_MultiItemOrder ==
  (PackCalled /\ BothSecrets) =>
    /\ container.error = NoError
    /\ Len(container.items) = 2
    /\ container.items[1].t = S_text /\ container.items[2].t = S_file
    /\ LET metaBuf == Utf8Encode(JSONstringify(packMeta(container.items)))
       IN  container.buf = Concat(<<STEGv1, u32(Len(metaBuf)), metaBuf,
                                    Utf8Encode(secret.text), secret.file.buffer>>)
    /\ ParseCalled =>
         /\ parsed.error = NoError
         /\ Len(parsed.items) = 2
         /\ SameItem(parsed.items[1], container.items[1])
         /\ SameItem(parsed.items[2], container.items[2])

FormatErrors == {ErrMagic, ErrCorruptMeta, ErrNoPayload}

\* the length field of the container, and the metadata it delimits
DeclaredMetaLen(buf) == readU32BE(Slice(buf, 6, 10))
DeclaredMeta(buf) == JSONparse(Utf8Decode(Slice(buf, 10, 10 + DeclaredMetaLen(buf))))
DeclaredLens(buf) ==
  LET list == ItemsOrEmpty(DeclaredMeta(buf).val)
  IN  IF list.ty = "arr" THEN [i \in 1..Len(list.arr) |-> LenOrZero(list.arr[i])] ELSE <<>>

\* the metadata length, or the items' lengths after it, run past the end
RunsPastEnd(buf) ==
  /\ Len(buf) >= 10
  /\ \/ 10 + DeclaredMetaLen(buf) > Len(buf)
     \/ /\ DeclaredMeta(buf).ok
        /\ 10 + DeclaredMetaLen(buf) + SeqSum(DeclaredLens(buf)) > Len(buf)

\* the number of bytes a returned item holds
ItemLen(item) ==
  IF item.type = "text" THEN Len(Utf8Encode(item.text))
  ELSE LET n == Len(item.base64)
           pad == Cardinality({k \in 1..n : item.base64[k] = 61})
       IN  (n \div 4) * 3 - pad

\* C10: parseContainer fails with a format error, returning no item, when the
\* declared metadata length or an item's declared length runs past the end of
\* the container; a parse that succeeds returns no item shorter than its
\* declared length.
C10_ParseBounds ==
  ParseCalled =>
    /\ RunsPastEnd(container.buf) => parsed.error \in FormatErrors /\ parsed.items = <<>>
    /\ (parsed.error = NoError /\ Len(DeclaredLens(container.buf)) = Len(parsed.items)) =>
         \A k \in 1..Len(parsed.items) :
           ItemLen(parsed.items[k]) >= DeclaredLens(container.buf)[k]

---------------------------------------------------------------------------
(* Claims about the request handlers (Spec).                               *)

\* an extract request for the file an embed request sent, as it was sent
ExtractedIntact == pc = "extracted" /\ ~tampered.on
\* an extract request for that file after one byte of its envelope changed
ExtractedTampered == pc = "extracted" /\ tampered.on

NoItems == ~res.ok /\ res.items = <<>>

C4_TamperDetection ==
  ExtractedTampered =>
    /\ NoItems
    /\ req.password = secret.password => res.error = ErrAuth

\* An extract with the right password of a file whose cipher text changed.
C4_Witness ==
  /\ ExtractedTampered
  /\ tampered.part = "ct"
  /\ req.password = secret.password
  /\ res.error = ErrAuth

\* C5: extract of an envelope made with password p, run with a non-empty
\* password q # p, ends in the authentication error and returns no items.
C5_WrongPassword ==
  (ExtractedIntact /\ secret.password # <<>> /\ req.password # <<>>
     /\ req.password # secret.password) =>
    res.error = ErrAuth /\ NoItems

\* An extract with the password "px" of an envelope made with "pw".
C5_Witness ==
  /\ ExtractedIntact
  /\ secret.password = P_pw /\ req.password = P_px
  /\ SubSeq(payload, 1, 5) = ENCv1
  /\ res.error = ErrAuth

\* buf is a RIFF/WAVE file whose fmt chunk says audioFormat # 1 or a
\* bitsPerSample other than 8 and 16
RejectedWav(buf) ==
  /\ toAscii(buf, 0, 4) = RIFF /\ toAscii(buf, 8, 12) = WAVE
  /\ Let(wavChunks(buf, [offset |-> 12, fmt |-> NoFmt, dataOffset |-> -1,
                         dataLength |-> -1, thrown |-> FALSE]), LAMBDA s :
       /\ ~s.thrown /\ s.fmt.present
       /\ s.fmt.audioFormat # 1 \/ s.fmt.bitsPerSample \notin {8, 16})

\* C6: an embed request (with a secret) whose audio cover is a RIFF/WAVE file
\* with audioFormat # 1 or bitsPerSample outside {8, 16} ends in the format
\* error; the cover is not written and no stego file is returned.
C6_FormatRejection ==
  (pc = "embedded" /\ container.error = NoError /\ cover.present
     /\ IsAudio(cover.mimetype) /\ RejectedWav(before)) =>
    /\ res.error \in {ErrNotPcm, ErrBitDepth}
    /\ ~stego.present
    /\ cover.buffer = before

\* the reader handleExtract builds for a file it accepts as a carrier
ReaderOf(file) ==
  IF IsImage(file.mimetype) THEN ImageReader(file.buffer, file.width, file.height)
  ELSE Let(parseWavHeader(file.buffer), LAMBDA h :
         AudioReader(file.buffer, h.dataOffset, h.dataLength, h.fmt.bitsPerSample))

\* file is an image or a PCM WAV file with room for the six bytes of a magic
AdequateCarrier(file) ==
  /\ file.present
  /\ IsImage(file.mimetype)
     \/ (IsAudio(file.mimetype) /\ parseWavHeader(file.buffer).error = NoError)
  /\ ReaderOf(file).capacityBits >= 48

\* C8 as stated: extract from a carrier of adequate capacity that no embed
\* produced ends in the magic-mismatch format error and returns no items.
C8_MagicMismatch ==
  (pc = "uploaded" /\ AdequateCarrier(stego)) =>
    res.error \in {ErrNoPayload, ErrMagic} /\ NoItems

\* C8, amended: extract from such a carrier whose first five embedded bytes
\* are not "ENCv1" and whose first six are not "STEGv1" ends in the error
\* "No valid payload found in the file." and returns no items.
C8_MagicMismatchAmended ==
  (pc = "uploaded" /\ AdequateCarrier(stego)
     /\ readBytes(ReaderOf(stego), 5).out # ENCv1
     /\ readBytes(ReaderOf(stego), 6).out # STEGv1) =>
    res.error = ErrNoPayload /\ NoItems

\* An extract from an image whose bits spell five of the six bytes of the
\* magic "STEGv1" and then another byte.
C8_Witness ==
  /\ pc = "uploaded"
  /\ AdequateCarrier(stego)
  /\ readBytes(ReaderOf(stego), 5).out = SubSeq(STEGv1, 1, 5)
  /\ readBytes(ReaderOf(stego), 6).out # STEGv1
  /\ res.error = ErrNoPayload

\* the status of the responses the handlers give to a request the caller can
\* correct
CallerError == 400

\* C9: an embed request with no secret file and a secret text that is empty
\* or white space only fails with an input error, of the class the caller can
\* correct, and neither a container nor a stego carrier is produced.
C9_EmptyInput ==
  (pc = "embedded" /\ ~secret.file.present /\ ~TrimNonEmpty(secret.text)) =>
    /\ res.status = CallerError
    /\ res.error \in {ErrCoverRequired, ErrSecretRequired, ErrNoSecret}
    /\ container.buf = <<>> /\ payload = <<>>
    /\ ~stego.present

\* an embed request that got as far as encryptIfNeeded
Encrypted == pc = "embedded" /\ container.error = NoError /\ container.buf # <<>>

\* C11: encryptIfNeeded with an empty password returns the container bytes
\* it was given (same length, same content, starting with "STEGv1"); with a
\* non-empty password, and only then, it returns an "ENCv1" envelope.
C11_EmptyPasswordNoOp ==
  Encrypted =>
    /\ secret.password = <<>> =>
         /\ payload = container.buf
         /\ Len(payload) = Len(container.buf)
         /\ SubSeq(payload, 1, 6) = STEGv1
    /\ secret.password # <<>> <=> SubSeq(payload, 1, 5) = ENCv1

\* An embed request with no password whose container went into a carrier.
C11_Witness ==
  /\ Encrypted
  /\ secret.password = <<>>
  /\ payload = container.buf
  /\ stego.present

\* an extract request has been answered
ExtractDone == pc \in {"extracted", "uploaded"}

\* the first five bytes read from file are "ENCv1"
StartsEnvelope(file) ==
  AdequateCarrier(file) /\ readBytes(ReaderOf(file), 5).out = ENCv1

\* the cipher length the envelope header in file declares
DeclaredCipherLen(file) == readU32BE(Slice(readBytes(ReaderOf(file), 53).out, 49, 53))

\* file has room for the 53 header bytes and for the cipher text they declare
HoldsEnvelope(file) ==
  /\ ReaderOf(file).capacityBits >= 8 * 53
  /\ ReaderOf(file).capacityBits >= 8 * (53 + DeclaredCipherLen(file))

\* the errors of the authentication class
AuthErrors == {ErrPasswordRequired, ErrAuth}

\* C12 as stated: extract with an empty password from a carrier whose
\* payload starts with "ENCv1" ends in an authentication error and returns no
\* items, whatever the rest of the envelope contains.
C12_MissingPassword ==
  (ExtractDone /\ StartsEnvelope(stego) /\ req.password = <<>>) =>
    res.error \in AuthErrors /\ NoItems

\* C12, amended: such an extract returns no items; it ends in the error
\* "Password required to decrypt payload." when the carrier holds the header
\* and the cipher text the header declares, and in the reader's
\* out-of-capacity error when it does not.
C12_MissingPasswordAmended ==
  (ExtractDone /\ StartsEnvelope(stego) /\ req.password = <<>>) =>
    /\ NoItems
    /\ IF HoldsEnvelope(stego) THEN res.error = ErrPasswordRequired
       ELSE res.error \in {ErrImageRead, ErrAudioRead}

\* An extract without a password of the envelope an embed request with a
\* password put into a WAV file.
C12_Witness ==
  /\ pc = "extracted"
  /\ IsAudio(stego.mimetype)
  /\ StartsEnvelope(stego) /\ HoldsEnvelope(stego)
  /\ secret.password # <<>> /\ req.password = <<>>
  /\ res.error = ErrPasswordRequired

\* an extract of the intact envelope with a non-empty password that is not
\* the one it was made with
WrongPasswordRun ==
  /\ ExtractedIntact /\ secret.password # <<>>
  /\ req.password # <<>> /\ req.password # secret.password

\* an extract with the right password of the envelope after a byte of its
\* cipher text or tag changed
TamperedRun ==
  /\ ExtractedTampered /\ secret.password # <<>>
  /\ req.password = secret.password

\* C13: the response to an extract with a wrong non-empty password on an
\* intact envelope and the response to an extract with the right password on
\* an envelope whose cipher text or tag changed are the same response: same
\* status, same error message, no items.  Every run of either kind gets the
\* one response named here, so no two of them can be told apart.
C13_SameAuthFailure ==
  (WrongPasswordRun \/ TamperedRun) => res = ErrorResponse(500, ErrAuth)

\* An extract with the right password after a byte of the tag changed.
C13_Witness ==
  /\ TamperedRun
  /\ tampered.part = "tag"
  /\ res = ErrorResponse(500, ErrAuth)

\* the stego file holds the whole payload: reading Len(payload) bytes from it
\* gives the payload
HoldsPayload(file) == readBytes(ReaderOf(file), Len(payload)).out = payload

\* C14: the response to an embed request is either the stego carrier with the
\* whole payload in it or an error with no file; the response to an extract
\* request is either the whole ordered item list or an error with no items.
\* A failing step of embed sends no carrier bytes, a failing step of extract
\* sends no items.
C14_NoPartialOutcome ==
  /\ pc = "embedded" =>
       /\ res.items = <<>> /\ ~res.ok
       /\ ~tampered.on => stego = res.file
       /\ IF res.error # NoError
          THEN res.status # 200 /\ ~res.file.present
          ELSE res.status = 200 /\ res.file.present /\ payload # <<>>
               /\ HoldsPayload(res.file)
  /\ ExtractDone =>
       /\ ~res.file.present
       /\ IF res.error # NoError
          THEN res.status # 200 /\ ~res.ok /\ res.items = <<>>
          ELSE res.status = 200 /\ res.ok
       /\ (ExtractedIntact /\ res.ok) => Len(res.items) = Len(container.items)

\* An embed request into a WAV cover that failed at the capacity test, after
\* packing and encrypting.
C14_Witness ==
  /\ pc = "embedded"
  /\ IsAudio(cover.mimetype) /\ parseWavHeader(before).error = NoError
  /\ payload # <<>>
  /\ res.status = 400 /\ res.error # NoError
  /\ ~res.file.present

\* C16: when an embed request has finished, with a stego carrier or with an
\* error, a failure of the audio transcoder included, no file written for
\* that request is left on disk.
C16_NoPersistence ==
  pc = "embedded" => disk = {}

---------------------------------------------------------------------------
(* SpecExtract: handleExtract step by step.  Each running handler has its  *)
(* locals in calls[i]: the upload, the password, the reader with its bit   *)
(* cursor, the bytes read so far and the response once it is written.      *)
(* pc is the state of the run: START, the reading states, DECRYPT, PARSE,  *)
(* and the terminal states DONE and ERROR.                                 *)

restVars == <<carrier, payload, r, before, secret, container, parsed, cover, stego, res,
              sealed, tampered, req, pc, disk>>

NoReader == [kind |-> "none", buf |-> <<>>, bitIdx |-> 0, capacityBits |-> 0,
             dataOffset |-> 0, bytesPerSample |-> 1]

\* the locals of handleExtract when it is entered
XCall(upload, password) ==
  [op |-> "extract", pc |-> "START", upload |-> upload, password |-> password,
   reader |-> NoReader, want |-> 0, out |-> <<>>, parts |-> <<>>, buf |-> <<>>,
   res |-> NoResponse]

ReadingStates == {"PEEK", "READ_ENVELOPE_HEADER", "READ_CIPHERTEXT", "READ_MAGIC_TAIL",
                  "READ_METADATA_LEN", "READ_METADATA", "READ_ITEMS"}
TerminalStates == {"DONE", "ERROR"}
ExtractStates == {"START", "DECRYPT", "PARSE"} \cup ReadingStates \cup TerminalStates

\* a throw, caught and answered: res.status(status).json({ error: msg })
Failed(c, status, msg) == [c EXCEPT !.pc = "ERROR", !.res = ErrorResponse(status, msg)]

\* reader.readBytes(n) is entered: const out = Buffer.alloc(n)
Begin(c, state, n) ==
  IF n < 0 THEN Failed(c, 500, ErrAllocSize)
  ELSE [c EXCEPT !.pc = state, !.want = n, !.out = <<>>]

\* readBytes has returned out; the next readBytes(n) is entered
Keep(c, state, n) == Begin([c EXCEPT !.parts = Append(@, c.out)], state, n)

\* handleExtract up to the call of extractData: the reader is built
xStart(c) ==
  IF ~c.upload.present THEN Failed(c, 400, ErrStegoRequired)
  ELSE IF IsImage(c.upload.mimetype)
  THEN Begin([c EXCEPT !.reader = ImageReader(c.upload.buffer, c.upload.width,
                                              c.upload.height)], "PEEK", 5)
  ELSE IF IsAudio(c.upload.mimetype)
  THEN Let(parseWavHeader(c.upload.buffer), LAMBDA h :
         IF h.error # NoError THEN Failed(c, 500, h.error)
         ELSE Begin([c EXCEPT !.reader = AudioReader(c.upload.buffer, h.dataOffset,
                                                     h.dataLength, h.fmt.bitsPerSample)],
                    "PEEK", 5))
  ELSE Failed(c, 400, ErrUnsupportedStego)

\* The mutant of the loop body of readBytes without the capacity test.
xReadByte_noCapacityTest(c) ==
  Let(readBytes([c.reader EXCEPT !.capacityBits = c.reader.bitIdx + 8], 1), LAMBDA b :
    [c EXCEPT !.reader.bitIdx = b.reader.bitIdx, !.out = @ \o b.out])

\* one turn of the loop over i in readBytes: eight bits, or the throw at the
\* first bit past the capacity
xReadByte(c) ==
  Let(readBytes(c.reader, 1), LAMBDA b :
    IF b.error # NoError THEN Failed([c EXCEPT !.reader = b.reader], 500, b.error)
    ELSE [c EXCEPT !.reader = b.reader, !.out = @ \o b.out])

\* first5.equals("ENCv1")
xPeek(c) ==
  IF c.out = ENCv1 THEN Keep(c, "READ_ENVELOPE_HEADER", 48)
  ELSE Keep(c, "READ_MAGIC_TAIL", 1)

\* The mutant of the header step that takes the cipher text's length from the
\* first four bytes of headerRest.
xEnvelopeHeader_lenAtStart(c) == Keep(c, "READ_CIPHERTEXT", readU32BE(Slice(c.out, 0, 4)))

\* encLen = readU32BE(headerRest.slice(44, 48)); reader.readBytes(encLen)
xEnvelopeHeader(c) == Keep(c, "READ_CIPHERTEXT", readU32BE(Slice(c.out, 44, 48)))

\* combined = Buffer.concat([first5, headerRest, enc])
xCiphertext(c) == [c EXCEPT !.parts = Append(@, c.out), !.pc = "DECRYPT"]

\* the password test, scrypt, setAuthTag, update, final
xDecrypt(c, seals) ==
  Let(decryptCombined(Concat(c.parts), c.password, seals, c.reader), LAMBDA d :
    IF d.error # NoError THEN Failed(c, 500, d.error)
    ELSE [c EXCEPT !.pc = "PARSE", !.buf = d.buf])

\* magic = first5 + sixth; the magic test
xMagicTail(c) ==
  IF c.parts[1] \o c.out # STEGv1 THEN Failed(c, 500, ErrNoPayload)
  ELSE Keep(c, "READ_METADATA_LEN", 4)

\* metaLen = readU32BE(metaLenBuf); reader.readBytes(metaLen)
xMetadataLen(c) == Keep(c, "READ_METADATA", readU32BE(c.out))

\* JSON.parse of the metadata; dataTotal; reader.readBytes(dataTotal)
xMetadata(c) ==
  Let(JSONparse(Utf8Decode(c.out)), LAMBDA meta :
    IF ~meta.ok THEN Failed(c, 500, ErrCorruptMeta)
    ELSE Let(ItemsOrEmpty(meta.val), LAMBDA list :
           IF list.ty # "arr" THEN Failed(c, 500, ErrTypeError)
           ELSE Keep(c, "READ_ITEMS",
                     SeqSum([k \in 1..Len(list.arr) |-> LenOrZero(list.arr[k])]))))

\* containerBuf = Buffer.concat([magic, metaLenBuf, metaBuf, dataBuf])
xItems(c) ==
  [c EXCEPT !.parts = Append(@, c.out), !.pc = "PARSE",
            !.buf = Concat(Append(c.parts, c.out))]

\* The mutant of the last step that sends the uploaded file back with the
\* items.
xParse_echoUpload(c) ==
  Let(parseContainer(c.buf), LAMBDA p :
    IF p.error # NoError THEN Failed(c, 500, p.error)
    ELSE [c EXCEPT !.pc = "DONE",
                   !.res = [ItemsResponse(p.items) EXCEPT !.file = c.upload]])

\* parseContainer(containerBuf); res.json({ ok: true, items })
xParse(c) ==
  Let(parseContainer(c.buf), LAMBDA p :
    IF p.error # NoError THEN Failed(c, 500, p.error)
    ELSE [c EXCEPT !.pc = "DONE", !.res = ItemsResponse(p.items)])

\* the stego files of embed requests, with what the cipher sealed for them,
\* and the files no embed request produced
ExtractRuns ==
  { [file |-> u, seals |-> {}] : u \in Uploads }
  \cup { [file |-> handleEmbed(c, T_hi, f, p, salt, iv).res.file,
          seals |-> Sealed(packPayload(T_hi, f).buf, p, salt, iv)] :
          c \in {ImgBig, Wav16Big}, f \in ApiFiles, p \in EmbedPasswords,
          salt \in Salts, iv \in Ivs }

InitExtract ==
  /\ carrier = NoUpload /\ payload = <<>> /\ r = NoResult /\ before = <<>>
  /\ secret = NoSecret /\ container = NotPacked /\ parsed = NotParsed
  /\ cover = NoUpload /\ stego = NoUpload /\ res = NoResponse
  /\ tampered = NoTamper /\ req = NoRequest
  /\ pc = "calls"
  /\ disk = {}
  /\ \E e \in ExtractRuns, q \in ExtractPasswords :
       /\ sealed = e.seals
       /\ calls = <<XCall(e.file, q)>>

\* handler i is an extract in the given state
XAt(i, state) == calls[i].op = "extract" /\ calls[i].pc = state
\* ... and the readBytes of that state has filled its buffer
XRead(i, state) == XAt(i, state) /\ Len(calls[i].out) = calls[i].want
\* The mutant of a step with the reader's bit cursor declared at module level
\* instead of inside the handler: every running extract sees the cursor move.
Step_moduleLevelCursor(i, c) ==
  /\ calls' = [j \in DOMAIN calls |->
                IF j = i THEN c
                ELSE IF calls[j].op = "extract" /\ c.op = "extract"
                THEN [calls[j] EXCEPT !.reader.bitIdx = c.reader.bitIdx]
                ELSE calls[j]]
  /\ UNCHANGED restVars

\* handler i takes a step that leaves its locals as c
Step(i, c) == calls' = [calls EXCEPT ![i] = c] /\ UNCHANGED restVars

XStart == \E i \in DOMAIN calls : XAt(i, "START") /\ Step(i, xStart(calls[i]))

XReadByte ==
  \E i \in DOMAIN calls :
    /\ calls[i].op = "extract"
    /\ calls[i].pc \in ReadingStates
    /\ Len(calls[i].out) < calls[i].want
    /\ Step(i, xReadByte(calls[i]))

XPeek == \E i \in DOMAIN calls : XRead(i, "PEEK") /\ Step(i, xPeek(calls[i]))

XEnvelopeHeader ==
  \E i \in DOMAIN calls :
    XRead(i, "READ_ENVELOPE_HEADER") /\ Step(i, xEnvelopeHeader(calls[i]))

XCiphertext ==
  \E i \in DOMAIN calls : XRead(i, "READ_CIPHERTEXT") /\ Step(i, xCiphertext(calls[i]))

XDecrypt == \E i \in DOMAIN calls : XAt(i, "DECRYPT") /\ Step(i, xDecrypt(calls[i], sealed))

XMagicTail ==
  \E i \in DOMAIN calls : XRead(i, "READ_MAGIC_TAIL") /\ Step(i, xMagicTail(calls[i]))

XMetadataLen ==
  \E i \in DOMAIN calls : XRead(i, "READ_METADATA_LEN") /\ Step(i, xMetadataLen(calls[i]))

XMetadata ==
  \E i \in DOMAIN calls : XRead(i, "READ_METADATA") /\ Step(i, xMetadata(calls[i]))

XItems == \E i \in DOMAIN calls : XRead(i, "READ_ITEMS") /\ Step(i, xItems(calls[i]))

XParse == \E i \in DOMAIN calls : XAt(i, "PARSE") /\ Step(i, xParse(calls[i]))

NextExtract ==
  \/ XStart \/ XReadByte \/ XPeek \/ XEnvelopeHeader \/ XCiphertext \/ XDecrypt
  \/ XMagicTail \/ XMetadataLen \/ XMetadata \/ XItems \/ XParse

\* The handler is one chain of synchronous code and awaited promises that
\* settle; Node runs each continuation once the one before it has returned.
SpecExtract == InitExtract /\ [][NextExtract]_vars /\ WF_vars(NextExtract)

\* C15: every extract run ends in DONE, with the whole ordered item list in
\* its response, or in ERROR, with no items; from START every run reaches
\* one of the two, no step leaves them, and no state before them has
\* written a response, so none returns a partial list.
ExtractRunSafe(c) ==
  /\ c.pc \in ExtractStates
  /\ c.pc \notin TerminalStates => c.res = NoResponse
  /\ c.pc = "DONE" =>
       /\ c.res.ok /\ c.res.error = NoError
       /\ Len(c.res.items) = Len(DeclaredLens(c.buf))
  /\ c.pc = "ERROR" =>
       /\ ~c.res.ok /\ c.res.error # NoError /\ c.res.items = <<>>
  /\ c.pc \in TerminalStates => c.res = handleExtract(c.upload, c.password, sealed)

C15_ExtractTerminates ==
  /\ [](\A i \in DOMAIN calls : ExtractRunSafe(calls[i]))
  /\ [][\A i \in DOMAIN calls : calls[i].pc \in TerminalStates => calls'[i] = calls[i]]_vars
  /\ <>(calls[1].pc \in TerminalStates)

\* An extract of an envelope with its password that ended in DONE with the
\* text and the file that were embedded.
C15_Witness ==
  /\ pc = "calls"
  /\ calls[1].pc = "DONE"
  /\ sealed # {}
  /\ Len(calls[1].res.items) = 2

---------------------------------------------------------------------------
(* SpecConcurrent: two requests in flight.  An embed handler gives way at  *)
(* its awaits (encryptIfNeeded, the two sharp calls); an extract handler   *)
(* is taken byte by byte, which allows every interleaving a pool of        *)
(* workers could produce and not only those of one event loop.             *)

\* the locals of handleEmbed when it is entered; sent is the cover as the
\* client sent it, cover the upload in memory (req.files.cover[0])
ECall(coverFile, secretText, secretFile, password, salt, iv) ==
  [op |-> "embed", pc |-> "START", sent |-> coverFile, cover |-> coverFile,
   secretText |-> secretText, secretFile |-> secretFile, password |-> password,
   salt |-> salt, iv |-> iv, packed |-> NotPacked, payload |-> <<>>, buf |-> <<>>,
   res |-> NoResponse]

EmbedStates == {"START", "ENCRYPTED", "DECODED", "ENCODED"} \cup TerminalStates

\* handleEmbed up to `await encryptIfNeeded(...)`
eStart(c) ==
  IF ~c.cover.present THEN Failed(c, 400, ErrCoverRequired)
  ELSE IF c.secretText = <<>> /\ ~c.secretFile.present THEN Failed(c, 400, ErrSecretRequired)
  ELSE Let(packPayload(c.secretText, c.secretFile), LAMBDA packed :
         IF packed.error # NoError THEN Failed(c, 500, packed.error)
         ELSE [c EXCEPT !.pc = "ENCRYPTED", !.packed = packed,
                        !.payload = encryptIfNeeded(packed.buf, c.password, c.salt, c.iv)])

\* the branch on the cover's type: an image goes to `await sharp(cover.buffer)`
\* and buf = Buffer.from(data); the audio branch runs to its response
eCover(c) ==
  IF IsImage(c.cover.mimetype) THEN [c EXCEPT !.pc = "DECODED", !.buf = c.cover.buffer]
  ELSE Let(embedPacked(c.cover, c.packed, c.payload), LAMBDA o :
         [c EXCEPT !.pc = IF o.res.error # NoError THEN "ERROR" ELSE "DONE",
                   !.res = o.res, !.cover.buffer = o.coverBuf])

\* embedLSB_RGBA(buf, ...) up to `await sharp(buf, ...).png().toBuffer()`
eEmbedImage(c) ==
  Let(embedLSB_RGBA(c.buf, c.cover.width, c.cover.height, c.payload), LAMBDA e :
    IF e.error # NoError THEN Failed(c, 400, e.error)
    ELSE [c EXCEPT !.pc = "ENCODED", !.buf = e.buf])

\* res.send(stego)
eSend(c) ==
  [c EXCEPT !.pc = "DONE", !.res = FileResponse(Image(c.cover.width, c.cover.height, c.buf))]

\* the requests of the concurrent runs: three embeds (an image cover, a WAV
\* cover with a password, a WAV cover that is too small) and three extracts
\* (an encrypted WAV stego file with its password, a plain image stego file,
\* an image that holds nothing)
ConcurrentCalls ==
  << ECall(ImgBig, T_hi, NoFile, <<>>, Fill(16, 3), Fill(12, 9)),
     ECall(Wav16Big, T_hi, File(N_a_bin, S_octet_stream, <<0, 255, 16>>), P_pw,
           Fill(16, 3), Fill(12, 9)),
     ECall(WavSmall, T_hi, NoFile, <<>>, Fill(16, 3), Fill(12, 9)),
     XCall(handleEmbed(Wav16Big, T_hi, NoFile, P_pw, Fill(16, 3), Fill(12, 9)).res.file, P_pw),
     XCall(handleEmbed(ImgBig, T_hi, NoFile, <<>>, Fill(16, 3), Fill(12, 9)).res.file, <<>>),
     XCall(ImgSmall, <<>>) >>

InitConcurrent ==
  /\ carrier = NoUpload /\ payload = <<>> /\ r = NoResult /\ before = <<>>
  /\ secret = NoSecret /\ container = NotPacked /\ parsed = NotParsed
  /\ cover = NoUpload /\ stego = NoUpload /\ res = NoResponse
  /\ tampered = NoTamper /\ req = NoRequest
  /\ pc = "concurrent"
  /\ disk = {}
  /\ sealed = Sealed(packPayload(T_hi, NoFile).buf, P_pw, Fill(16, 3), Fill(12, 9))
  /\ \E m \in DOMAIN ConcurrentCalls, n \in DOMAIN ConcurrentCalls :
       m < n /\ calls = <<ConcurrentCalls[m], ConcurrentCalls[n]>>

\* handler i is an embed in the given state
EAt(i, state) == calls[i].op = "embed" /\ calls[i].pc = state

EStart ==
  \E i \in DOMAIN calls :
    /\ EAt(i, "START")
    /\ calls' = [calls EXCEPT ![i] = eStart(calls[i])]
    /\ sealed' = sealed \cup
         (IF calls'[i].pc = "ENCRYPTED"
          THEN Sealed(calls'[i].packed.buf, calls[i].password, calls[i].salt, calls[i].iv)
          ELSE {})
    /\ UNCHANGED <<carrier, payload, r, before, secret, container, parsed, cover, stego,
                   res, tampered, req, pc, disk>>

ECover == \E i \in DOMAIN calls : EAt(i, "ENCRYPTED") /\ Step(i, eCover(calls[i]))

EEmbedImage == \E i \in DOMAIN calls : EAt(i, "DECODED") /\ Step(i, eEmbedImage(calls[i]))

ESend == \E i \in DOMAIN calls : EAt(i, "ENCODED") /\ Step(i, eSend(calls[i]))

NextConcurrent == NextExtract \/ EStart \/ ECover \/ EEmbedImage \/ ESend

SpecConcurrent == InitConcurrent /\ [][NextConcurrent]_vars

\* the response and the buffers of call c are those of the same request run
\* alone
AsAlone(c) ==
  IF c.op = "extract" THEN c.res = handleExtract(c.upload, c.password, sealed)
  ELSE Let(handleEmbed(c.sent, c.secretText, c.secretFile, c.password, c.salt, c.iv),
           LAMBDA o : c.res = o.res /\ c.cover.buffer = o.coverBuf)

\* C17: in every interleaving of two requests, a request that has ended has
\* the response (stego file, item list or error) of the same request run
\* alone, and the cover buffer it leaves is the one it leaves alone; every
\* step changes the locals (bit cursor, carrier and payload buffers) of one
\* call only.
C17_Isolation ==
  /\ [](\A i \in DOMAIN calls : calls[i].pc \in TerminalStates => AsAlone(calls[i]))
  /\ [][\E i \in DOMAIN calls : \A j \in DOMAIN calls \ {i} : calls'[j] = calls[j]]_vars

\* An embed that has sent its stego file while an extract of another
\* carrier is in the middle of a read, its cursor past the first byte.
C17_Witness ==
  /\ pc = "concurrent"
  /\ calls[1].op = "embed" /\ calls[1].pc = "DONE" /\ calls[1].res.file.present
  /\ calls[2].op = "extract" /\ calls[2].pc \in ReadingStates
  /\ calls[2].reader.bitIdx > 8
  /\ Len(calls[2].out) < calls[2].want

---------------------------------------------------------------------------
(* Claims about where the embed functions write (SpecCodec).               *)

\* payload bit number i: the bytes in order, the most significant bit of
\* each byte first
PayloadBit(pl, i) == BitAt(pl[(i \div 8) + 1], 7 - (i % 8))

ImageEmbedded == Called /\ carrier.kind = "image" /\ r.ok
AudioEmbedded == Called /\ carrier.kind = "audio" /\ r.ok

\* C18: after embedLSB_RGBA has succeeded, payload bit i is bit 0 of byte
\* 4*floor(i/3) + (i mod 3) of the RGBA buffer, and the upper seven bits of
\* that byte are those it had before the call.
C18_ImageAddressing ==
  ImageEmbedded =>
    \A i \in 0..(8 * Len(payload) - 1) :
      LET at == 4 * (i \div 3) + (i % 3)
      IN  /\ at < Len(carrier.buf)
          /\ carrier.buf[at + 1] % 2 = PayloadBit(payload, i)
          /\ carrier.buf[at + 1] \div 2 = before[at + 1] \div 2

\* A successful image embed of the longest payload that changed the lowest
\* bit of a byte beyond the first pixel.
C18_Witness ==
  /\ ImageEmbedded
  /\ Len(payload) = MaxPayloadLen
  /\ \E i \in 3..(8 * Len(payload) - 1) :
       carrier.buf[4 * (i \div 3) + (i % 3) + 1] # before[4 * (i \div 3) + (i % 3) + 1]

\* the bit index of byte k of an RGBA buffer (k is no alpha byte)
BitIndexOf(k) == 3 * (k \div 4) + (k % 4)

\* C19: after embedLSB_RGBA has succeeded with a payload of L bytes, every
\* alpha byte (index 4p+3) and every R/G/B byte whose bit index is at least
\* 8L has the value it had before the call, and the buffer has its length.
C19_ImageFrame ==
  ImageEmbedded =>
    /\ Len(carrier.buf) = Len(before)
    /\ \A k \in 0..(Len(before) - 1) :
         (k % 4 = 3 \/ BitIndexOf(k) >= 8 * Len(payload)) =>
           carrier.buf[k + 1] = before[k + 1]

\* A successful image embed that changed the buffer and left R/G/B bytes
\* past the payload's last bit.
C19_Witness ==
  /\ ImageEmbedded
  /\ Len(payload) > 0
  /\ carrier.buf # before
  /\ 8 * Len(payload) + 3 <= CapacityBits

\* the data chunk parseWavHeader found in the file before the embed
DataChunk == parseWavHeader(before)
BytesPerSample == carrier.bits \div 8

\* C20: after embedLSB_WavPCM has succeeded with a payload of L bytes,
\* payload bit i is bit 0 of byte dataOffset + i*bytesPerSample; the upper
\* seven bits of every written byte, every byte outside the data chunk, the
\* second byte of every 16-bit sample and every sample of index at least 8L
\* have the value they had before the call.
C20_AudioAddressingFrame ==
  AudioEmbedded =>
    /\ Len(carrier.buf) = Len(before)
    /\ \A i \in 0..(8 * Len(payload) - 1) :
         LET at == DataChunk.dataOffset + i * BytesPerSample
         IN  /\ at < DataChunk.dataOffset + DataChunk.dataLength
             /\ carrier.buf[at + 1] % 2 = PayloadBit(payload, i)
             /\ carrier.buf[at + 1] \div 2 = before[at + 1] \div 2
    /\ \A k \in 0..(Len(before) - 1) :
         (\/ k < DataChunk.dataOffset
          \/ k >= DataChunk.dataOffset + DataChunk.dataLength
          \/ (k - DataChunk.dataOffset) % BytesPerSample # 0
          \/ (k - DataChunk.dataOffset) \div BytesPerSample >= 8 * Len(payload)) =>
           carrier.buf[k + 1] = before[k + 1]

\* A successful embed into a 16-bit WAV file with a chunk before the data
\* chunk and one after it, which changed the file and left whole samples
\* past the payload's last bit.
C20_Witness ==
  /\ AudioEmbedded
  /\ carrier.bits = 16
  /\ Len(payload) > 0
  /\ carrier.buf # before
  /\ (8 * Len(payload) + 1) * BytesPerSample <= DataChunk.dataLength
  /\ DataChunk.dataOffset > 44
  /\ DataChunk.dataOffset + DataChunk.dataLength < Len(before)

---------------------------------------------------------------------------
(* SpecReader: the readers of handleExtract bit by bit.  A carrier that an *)
(* embed call has left (written, or untouched after a capacity error) is   *)
(* read by a fresh reader in up to MaxReads calls of readBytes; each turn  *)
(* of the inner loop is one step.                                          *)

\* the embed function of the carrier's kind, called as handleEmbed calls it
EmbedInto(c, pl) ==
  IF c.kind = "image" THEN embedLSB_RGBA(c.buf, c.width, c.height, pl)
  ELSE Let(parseWavHeader(c.buf), LAMBDA h :
         embedLSB_WavPCM(c.buf, pl, h.dataOffset, h.dataLength, h.fmt.bitsPerSample))

\* the reader handleExtract builds over the carrier
ReaderOver(c) ==
  IF c.kind = "image" THEN ImageReader(c.buf, c.width, c.height)
  ELSE Let(parseWavHeader(c.buf), LAMBDA h :
         AudioReader(c.buf, h.dataOffset, h.dataLength, h.fmt.bitsPerSample))

\* a reader and the locals of its readBytes: n, i, b, byte, out.  start is
\* the cursor when readBytes was entered, ret what the last call returned,
\* got all bytes returned so far, bitAt and byteAt the bit index and the
\* buffer index of the last carrier read (-1 before the first).
RCall(reader) ==
  [op |-> "read", pc |-> "IDLE", reader |-> reader, start |-> 0, n |-> 0, i |-> 0, b |-> 7,
   byte |-> 0, out |-> <<>>, ret |-> <<>>, got |-> <<>>, reads |-> 0, error |-> NoError,
   bitAt |-> -1, byteAt |-> -1]

\* return out
rReturn(c) == [c EXCEPT !.pc = "IDLE", !.ret = c.out, !.got = @ \o c.out]

\* readBytes(n) is entered: const out = Buffer.alloc(n); for (let i = 0; ...)
rBegin(c, n) ==
  Let([c EXCEPT !.pc = "LOOP", !.start = c.reader.bitIdx, !.n = n, !.i = 0, !.b = 7,
                !.byte = 0, !.out = [k \in 1..n |-> 0], !.reads = @ + 1], LAMBDA d :
    IF n = 0 THEN rReturn(d) ELSE d)

\* The mutant of the reader's index that takes the last byte of an audio
\* sample, the most significant one of a 16-bit sample.
rIndex_lastByte(reader, k) ==
  IF reader.kind = "image" THEN (k \div 3) * 4 + (k % 3)
  ELSE reader.dataOffset + k * reader.bytesPerSample + (reader.bytesPerSample - 1)

\* the buffer index the reader takes bit k from
rIndex(reader, k) ==
  IF reader.kind = "image" THEN (k \div 3) * 4 + (k % 3)
  ELSE reader.dataOffset + k * reader.bytesPerSample

\* The mutant of the loop turn that fills the output byte from bit 0 up.
rTurn_lsbFirst(c) ==
  IF c.reader.bitIdx >= c.reader.capacityBits
  THEN [c EXCEPT !.pc = "THROWN",
                 !.error = IF c.reader.kind = "image" THEN ErrImageRead ELSE ErrAudioRead]
  ELSE Let([c EXCEPT !.byte = @ + (BufGet(c.reader.buf, rIndex(c.reader, c.reader.bitIdx)) % 2)
                                  * (2 ^ (7 - c.b)),
                     !.bitAt = c.reader.bitIdx,
                     !.byteAt = rIndex(c.reader, c.reader.bitIdx),
                     !.reader.bitIdx = @ + 1], LAMBDA d :
         IF c.b > 0 THEN [d EXCEPT !.b = @ - 1]
         ELSE Let([d EXCEPT !.out[c.i + 1] = d.byte, !.i = @ + 1, !.b = 7, !.byte = 0],
                  LAMBDA e : IF e.i < e.n THEN e ELSE rReturn(e)))

\* The mutant of the loop turn whose capacity test is one bit late.
rTurn_lateTest(c) ==
  IF c.reader.bitIdx > c.reader.capacityBits
  THEN [c EXCEPT !.pc = "THROWN",
                 !.error = IF c.reader.kind = "image" THEN ErrImageRead ELSE ErrAudioRead]
  ELSE Let([c EXCEPT !.byte = @ + (BufGet(c.reader.buf, rIndex(c.reader, c.reader.bitIdx)) % 2)
                                  * (2 ^ c.b),
                     !.bitAt = c.reader.bitIdx,
                     !.byteAt = rIndex(c.reader, c.reader.bitIdx),
                     !.reader.bitIdx = @ + 1], LAMBDA d :
         IF c.b > 0 THEN [d EXCEPT !.b = @ - 1]
         ELSE Let([d EXCEPT !.out[c.i + 1] = d.byte, !.i = @ + 1, !.b = 7, !.byte = 0],
                  LAMBDA e : IF e.i < e.n THEN e ELSE rReturn(e)))

\* one turn of the inner loop "for (let b = 7; b >= 0; b--)": the capacity
\* test and its throw, or the read of one bit; after the turn with b = 0,
\* out[i] = byte and i++, and after the last i the return
rTurn(c) ==
  IF c.reader.bitIdx >= c.reader.capacityBits
  THEN [c EXCEPT !.pc = "THROWN",
                 !.error = IF c.reader.kind = "image" THEN ErrImageRead ELSE ErrAudioRead]
  ELSE Let([c EXCEPT !.byte = @ + (BufGet(c.reader.buf, rIndex(c.reader, c.reader.bitIdx)) % 2)
                                  * (2 ^ c.b),
                     !.bitAt = c.reader.bitIdx,
                     !.byteAt = rIndex(c.reader, c.reader.bitIdx),
                     !.reader.bitIdx = @ + 1], LAMBDA d :
         IF c.b > 0 THEN [d EXCEPT !.b = @ - 1]
         ELSE Let([d EXCEPT !.out[c.i + 1] = d.byte, !.i = @ + 1, !.b = 7, !.byte = 0],
                  LAMBDA e : IF e.i < e.n THEN e ELSE rReturn(e)))

\* the carriers the readers are run over: narrow, middle and widest images,
\* the two longest data chunks of each kind of WAV file, and WAV files of
\* both sample widths that hold the longest payload and one sample more
ReaderCarriers ==
  { c \in CodecImages : c.width \in {1, 3, MaxWidth} }
  \cup { c \in CodecWavs : c.dataLength \in {MaxDataLen - 4, MaxDataLen} }
  \cup { [kind |-> "audio", width |-> 0, height |-> 0, bits |-> bits,
           dataLength |-> (8 * MaxPayloadLen + 1) * (bits \div 8),
           buf |-> MkWav(1, bits, Fill((8 * MaxPayloadLen + 1) * (bits \div 8), 0))] :
           bits \in {8, 16} }

InitReader ==
  /\ secret = NoSecret /\ container = NotPacked /\ parsed = NotParsed
  /\ cover = NoUpload /\ stego = NoUpload /\ res = NoResponse
  /\ sealed = {} /\ tampered = NoTamper /\ req = NoRequest
  /\ pc = "reader"
  /\ disk = {}
  /\ \E c \in ReaderCarriers, pl \in CodecPayloads :
       /\ before = c.buf
       /\ payload = pl
       /\ r = Result(EmbedInto(c, pl))
       /\ carrier = [c EXCEPT !.buf = EmbedInto(c, pl).buf]
       /\ calls = <<RCall(ReaderOver([c EXCEPT !.buf = EmbedInto(c, pl).buf]))>>

\* reader.readBytes(n) is called
RReadBytes ==
  \E i \in DOMAIN calls, n \in 0..MaxReadLen :
    /\ calls[i].op = "read" /\ calls[i].pc = "IDLE"
    /\ calls[i].reads < MaxReads
    /\ Step(i, rBegin(calls[i], n))

RTurn ==
  \E i \in DOMAIN calls :
    calls[i].op = "read" /\ calls[i].pc = "LOOP" /\ Step(i, rTurn(calls[i]))

NextReader == RReadBytes \/ RTurn

SpecReader == InitReader /\ [][NextReader]_vars

\* the reader call of the specification
Rd == calls[1]

\* C21: the readers never read a bit at or after capacityBits: readBytes
\* throws the out-of-capacity error at the first such bit, a call that
\* returns gives all n bytes, each made of the eight carrier bits at the
\* cursor (none past the capacity, none from the start again), and a call
\* that throws returns nothing.
C21_StrictRead ==
  /\ Rd.bitAt < Rd.reader.capacityBits
  /\ Rd.pc = "THROWN" =>
       /\ Rd.error = (IF Rd.reader.kind = "image" THEN ErrImageRead ELSE ErrAudioRead)
       /\ Rd.start + 8 * Rd.n > Rd.reader.capacityBits
       /\ Rd.reader.bitIdx = Rd.reader.capacityBits
       /\ Len(Rd.got) * 8 = Rd.start
       /\ readBytes([Rd.reader EXCEPT !.bitIdx = Rd.start], Rd.n).error = Rd.error
  /\ (Rd.pc = "IDLE" /\ Rd.reads > 0) =>
       /\ Len(Rd.ret) = Rd.n
       /\ Rd.start + 8 * Rd.n <= Rd.reader.capacityBits
       /\ \A k \in 0..(8 * Rd.n - 1) :
            BitAt(Rd.ret[(k \div 8) + 1], 7 - (k % 8)) = readBit(Rd.reader, Rd.start + k)
       /\ readBytes([Rd.reader EXCEPT !.bitIdx = Rd.start], Rd.n).out = Rd.ret

\* A read that was thrown out at the capacity after some of its bits had
\* been read, on a reader that had returned bytes before.
C21_Witness ==
  /\ pc = "reader"
  /\ Rd.pc = "THROWN"
  /\ Rd.start > 0
  /\ Rd.start < Rd.reader.capacityBits
  /\ Rd.got # <<>>

\* C22: the first bit a byte's loop reads is bit 7 of the byte and the
\* later ones follow downwards; a readBytes(n) that returns has moved the
\* cursor by 8n, so between calls the cursor is 8 times the number of bytes
\* returned so far; and the cursor is never below 0 or above capacityBits.
C22_BitCursor ==
  /\ 0 <= Rd.reader.bitIdx /\ Rd.reader.bitIdx <= Rd.reader.capacityBits
  /\ Rd.pc = "IDLE" =>
       /\ Rd.reader.bitIdx = 8 * Len(Rd.got)
       /\ Rd.reads > 0 => Rd.reader.bitIdx = Rd.start + 8 * Rd.n
  /\ Rd.pc = "LOOP" =>
       /\ Rd.reader.bitIdx = Rd.start + 8 * Rd.i + (7 - Rd.b)
       /\ Rd.byte % (2 ^ (Rd.b + 1)) = 0
       /\ \A k \in 0..(6 - Rd.b) :
            BitAt(Rd.byte, 7 - k) = readBit(Rd.reader, Rd.start + 8 * Rd.i + k)
  /\ \A j \in 1..Len(Rd.got) :
       BitAt(Rd.got[j], 7) = readBit(Rd.reader, 8 * (j - 1))

\* The second call of readBytes, in its second byte, has read the first bit
\* of that byte, a 1, into bit 7.
C22_Witness ==
  /\ pc = "reader"
  /\ Rd.pc = "LOOP" /\ Rd.reads = 2 /\ Rd.start > 0
  /\ Rd.i = 1 /\ Rd.b = 6
  /\ Rd.byte = 128

---------------------------------------------------------------------------
(* Claims about the order of extractData's reads (SpecExtract).            *)

\* the step from locals c to locals d is the one extractData takes next
InOrder(c, d) ==
  IF c.pc = "START"
  THEN d.pc = "ERROR" \/ (d.pc = "PEEK" /\ d.want = 5 /\ d.reader.bitIdx = 0)
  ELSE IF c.pc \in ReadingStates /\ Len(c.out) < c.want
  THEN \/ d.pc = "ERROR"
       \/ /\ d.pc = c.pc /\ d.want = c.want /\ d.parts = c.parts
          /\ Len(d.out) = Len(c.out) + 1
          /\ d.reader.bitIdx = c.reader.bitIdx + 8
  ELSE IF c.pc = "PEEK"
  THEN /\ d.reader = c.reader /\ d.parts = <<c.out>>
       /\ IF c.out = ENCv1 THEN d.pc = "READ_ENVELOPE_HEADER" /\ d.want = 48
          ELSE d.pc = "READ_MAGIC_TAIL" /\ d.want = 1
  ELSE IF c.pc = "READ_ENVELOPE_HEADER"
  THEN /\ d.pc = "READ_CIPHERTEXT" /\ d.reader = c.reader
       /\ d.want = readU32BE(SubSeq(c.out, 45, 48))
  ELSE IF c.pc = "READ_CIPHERTEXT"
  THEN d.pc = "DECRYPT" /\ d.reader = c.reader /\ Len(d.parts[3]) = c.want
  ELSE IF c.pc = "DECRYPT" THEN d.pc \in {"PARSE", "ERROR"} /\ d.reader = c.reader
  ELSE IF c.pc = "READ_MAGIC_TAIL"
  THEN /\ d.reader = c.reader
       /\ IF c.parts[1] \o c.out = STEGv1 THEN d.pc = "READ_METADATA_LEN" /\ d.want = 4
          ELSE d.pc = "ERROR"
  ELSE IF c.pc = "READ_METADATA_LEN"
  THEN d.pc = "READ_METADATA" /\ d.reader = c.reader /\ d.want = readU32BE(c.out)
  ELSE IF c.pc = "READ_METADATA"
  THEN /\ d.reader = c.reader
       /\ \/ d.pc = "ERROR"
          \/ /\ d.pc = "READ_ITEMS"
             /\ d.want = SeqSum(DeclaredLens(Concat(c.parts) \o c.out))
  ELSE IF c.pc = "READ_ITEMS"
  THEN d.pc = "PARSE" /\ d.reader = c.reader /\ Len(d.buf) = c.reader.bitIdx \div 8
  ELSE IF c.pc = "PARSE" THEN d.pc \in {"DONE", "ERROR"} /\ d.reader = c.reader
  ELSE FALSE

\* what the reads have put together when the decryption starts is the
\* envelope some encryptIfNeeded wrote: its iv, tag and cipher text stand
\* where the reads took them from
ReadAsWritten(c) ==
  (c.pc = "DECRYPT" /\ sealed # {}) =>
    \E t \in sealed :
      /\ t[2] = SubSeq(c.parts[2], 17, 28)
      /\ t[4] = SubSeq(c.parts[2], 29, 44)
      /\ t[3] = c.parts[3]
      /\ readU32BE(SubSeq(c.parts[2], 45, 48)) = Len(t[3])

\* C23: extractData reads 5 bytes; on "ENCv1" it reads 48 header bytes, then
\* as many cipher bytes as the last four of them say (where encryptIfNeeded
\* wrote the length), decrypts, and parses; otherwise it reads 1 byte, tests
\* the six-byte magic, reads the 4-byte metadata length, the metadata, the
\* declared total of item bytes, and parses.  Every step is the next of
\* this order or the step to ERROR, and no step follows ERROR or DONE.
C23_ReadOrder ==
  /\ [](\A i \in DOMAIN calls : ReadAsWritten(calls[i]))
  /\ [][\A i \in DOMAIN calls : calls'[i] # calls[i] => InOrder(calls[i], calls'[i])]_vars

\* An extract of an encrypted stego file with its password that has read
\* the envelope and decrypted it: the parse is next.
C23_Witness ==
  /\ pc = "calls"
  /\ calls[1].pc = "PARSE"
  /\ Len(calls[1].parts) = 3
  /\ calls[1].parts[1] = ENCv1
  /\ sealed # {}
  /\ calls[1].buf # <<>>

---------------------------------------------------------------------------
(* Claims about the container packPayload writes (SpecPack).               *)

Packed == PackCalled /\ container.error = NoError

\* the bytes of the secrets that packPayload takes as items, in its order
SecretBytes ==
  (IF secret.text # <<>> /\ TrimNonEmpty(secret.text) THEN <<Utf8Encode(secret.text)>>
   ELSE <<>>)
  \o (IF secret.file.present THEN <<secret.file.buffer>> ELSE <<>>)

\* C24: every container packPayload returns is "STEGv1", the metadata's
\* byte length in four bytes (big-endian), the metadata JSON of exactly that
\* length, and the data; the metadata lists at least one item, each listed
\* len is the byte count of that item, the lens sum to the length of the
\* data, and the whole is 10 + metaLen + sum(len) bytes long.
C24_ContainerInvariant ==
  Packed =>
    /\ Slice(container.buf, 0, 6) = STEGv1
    /\ Slice(container.buf, 6, 10) = u32(DeclaredMetaLen(container.buf))
    /\ 10 + DeclaredMetaLen(container.buf) <= Len(container.buf)
    /\ DeclaredMeta(container.buf).ok
    /\ Utf8Encode(JSONstringify(DeclaredMeta(container.buf).val))
         = Slice(container.buf, 10, 10 + DeclaredMetaLen(container.buf))
    /\ Len(DeclaredLens(container.buf)) >= 1
    /\ DeclaredLens(container.buf) = [k \in 1..Len(SecretBytes) |-> Len(SecretBytes[k])]
    /\ Slice(container.buf, 10 + DeclaredMetaLen(container.buf), Len(container.buf))
         = Concat(SecretBytes)
    /\ SeqSum(DeclaredLens(container.buf))
         = Len(container.buf) - 10 - DeclaredMetaLen(container.buf)

\* A container packed from a text whose UTF-8 form is longer than the text
\* and a file.
C24_Witness ==
  /\ Packed
  /\ secret.text = T_e_acute
  /\ secret.file.present /\ Len(secret.file.buffer) = MaxFileLen
  /\ DeclaredLens(container.buf) = <<2, MaxFileLen>>

---------------------------------------------------------------------------
(* SpecWav: parseWavHeader on well-formed and defective files.             *)

\* a chunk: its id, the size it declares, its bytes
Chunk(id, size, body) == id \o u32le(size) \o body

\* the 16 bytes of a fmt chunk, mono at 8000 Hz
FmtBody(audioFormat, bitsPerSample) ==
  u16le(audioFormat) \o u16le(1) \o u32le(8000) \o u32le(8000 * Max(bitsPerSample \div 8, 1))
    \o u16le(Max(bitsPerSample \div 8, 1)) \o u16le(bitsPerSample)

\* a file: the two magics around the size field, then the chunks
WavFile(magic, form, chunks) == magic \o u32le(4 + Len(chunks)) \o form \o chunks

\* "RIFF" and "RIFX"; "RIFF" with the high bit of its first byte set
WavMagics == { RIFF, <<82, 73, 70, 88>>, <<210, 73, 70, 70>> }
\* "WAVE" and "WAVX"
WavForms == { WAVE, <<87, 65, 86, 88>> }

\* no fmt chunk; PCM of 8, 16 and 24 bits; float of 16 and 32 bits; an
\* empty fmt chunk; a fmt chunk that declares more bytes than the file has
FmtChunks ==
  { <<>>, Chunk(FMT_, 0, <<>>), Chunk(FMT_, 400, FmtBody(1, 16)) }
  \cup { Chunk(FMT_, 16, FmtBody(1, bits)) : bits \in {8, 16, 24} }
  \cup { Chunk(FMT_, 16, FmtBody(3, bits)) : bits \in {16, 32} }

\* no data chunk; data of 4 bytes; an empty data chunk; a data chunk that
\* declares more bytes than the file has; an odd data chunk with its pad
\* byte and a chunk after it; a chunk before the data chunk
DataChunks ==
  { <<>>,
    Chunk(DATA, 4, <<1, 2, 3, 4>>),
    Chunk(DATA, 0, <<>>),
    Chunk(DATA, 9, <<1, 2, 3, 4>>),
    Chunk(DATA, 3, <<1, 2, 3>>) \o <<0>> \o Chunk(<<99, 117, 101, 32>>, 2, <<7, 7>>),
    Chunk(<<76, 73, 83, 84>>, 2, <<7, 7>>) \o Chunk(DATA, 18, Fill(18, 5)) }

WavInputs ==
  { WavFile(magic, form, f \o d) :
      magic \in WavMagics, form \in WavForms, f \in FmtChunks, d \in DataChunks }
  \cup { WavFile(RIFF, WAVE, d \o f) : f \in FmtChunks, d \in DataChunks }

\* parseWavHeader is called with buf
WCall(buf) == [op |-> "parseWavHeader", pc |-> "CALLED", buf |-> buf,
               h |-> WavThrow("not called")]

\* it returns, or throws
wReturn(c) == [c EXCEPT !.pc = "RETURNED", !.h = parseWavHeader(c.buf)]

InitWav ==
  /\ carrier = NoUpload /\ payload = <<>> /\ r = NoResult /\ before = <<>>
  /\ secret = NoSecret /\ container = NotPacked /\ parsed = NotParsed
  /\ cover = NoUpload /\ stego = NoUpload /\ res = NoResponse
  /\ sealed = {} /\ tampered = NoTamper /\ req = NoRequest
  /\ pc = "wav"
  /\ disk = {}
  /\ \E buf \in WavInputs : calls = <<WCall(buf)>>

ParseWav ==
  \E i \in DOMAIN calls :
    /\ calls[i].op = "parseWavHeader" /\ calls[i].pc = "CALLED"
    /\ Step(i, wReturn(calls[i]))

NextWav == ParseWav

SpecWav == InitWav /\ [][NextWav]_vars

RECURSIVE FindChunk(_, _, _)
\* where the body of the chunk named id starts, walking the chunks from
\* offset; -1 when there is none before the end of the buffer or before a
\* chunk that runs past it
FindChunk(buf, offset, id) ==
  IF offset + 8 > Len(buf) THEN -1
  ELSE IF offset + 8 + readUInt32LE(buf, offset + 4) > Len(buf) THEN -1
  ELSE IF SubSeq(buf, offset + 1, offset + 4) = id THEN offset + 8
  ELSE FindChunk(buf, offset + 8 + readUInt32LE(buf, offset + 4)
                      + (readUInt32LE(buf, offset + 4) % 2), id)

\* the size the chunk whose body starts at start declares
ChunkSize(buf, start) == readUInt32LE(buf, start - 4)

\* a field of the fmt chunk whose body starts at start, -1 when the chunk
\* is too short to hold it
FmtField(buf, start, off) ==
  IF off + 2 > ChunkSize(buf, start) THEN -1 ELSE readUInt16LE(buf, start + off)

\* the first condition the buffer violates, in the order of the claim
FirstViolated(buf) ==
  IF SubSeq(buf, 1, 4) # RIFF \/ SubSeq(buf, 9, 12) # WAVE THEN ErrNotWav
  ELSE IF FindChunk(buf, 12, FMT_) < 0 THEN ErrNoFmt
  ELSE IF FmtField(buf, FindChunk(buf, 12, FMT_), 0) # 1 THEN ErrNotPcm
  ELSE IF FmtField(buf, FindChunk(buf, 12, FMT_), 14) \notin {8, 16} THEN ErrBitDepth
  ELSE IF FindChunk(buf, 12, DATA) < 0 \/ ChunkSize(buf, FindChunk(buf, 12, DATA)) <= 0
  THEN ErrNoData
  ELSE NoError

\* C25: parseWavHeader returns a data region only for a buffer that starts
\* with RIFF/WAVE, has a fmt chunk with audioFormat 1 and 8 or 16 bits per
\* sample and a data chunk of positive length inside the buffer, and the
\* region is that chunk; otherwise it fails with the error of the first
\* condition violated, in the order not RIFF/WAVE, missing fmt, not PCM,
\* unsupported bit depth, missing data chunk.  A chunk that runs past the
\* end of the buffer ends the walk.
C25_WavValidation ==
  \A i \in DOMAIN calls :
    (calls[i].op = "parseWavHeader" /\ calls[i].pc = "RETURNED") =>
      /\ calls[i].h.error = FirstViolated(calls[i].buf)
      /\ calls[i].h.error = NoError =>
           /\ calls[i].h.dataOffset = FindChunk(calls[i].buf, 12, DATA)
           /\ calls[i].h.dataLength = ChunkSize(calls[i].buf, calls[i].h.dataOffset)
           /\ calls[i].h.dataOffset + calls[i].h.dataLength <= Len(calls[i].buf)

---------------------------------------------------------------------------
(* Claims about a reader over an embedded carrier (SpecReader).            *)

\* C26: over the carrier a successful embed of L bytes has left, a fresh
\* reader returns the payload: the bytes returned by consecutive readBytes
\* calls, put together, are the payload's first bytes as long as no more
\* than L have been read, and no read that stays within the L bytes throws.
C26_BitRoundTrip ==
  r.ok =>
    /\ \A j \in 1..Min(Len(Rd.got), Len(payload)) : Rd.got[j] = payload[j]
    /\ Rd.pc = "THROWN" => Rd.start + 8 * Rd.n > 8 * Len(payload)

\* The payload of MaxPayloadLen bytes read back from a 16-bit WAV file in
\* more than one call of readBytes.
C26_Witness ==
  /\ pc = "reader" /\ r.ok
  /\ carrier.kind = "audio" /\ carrier.bits = 16
  /\ Len(payload) = MaxPayloadLen
  /\ Rd.pc = "IDLE" /\ Rd.reads >= 2 /\ Rd.n > 0
  /\ Rd.got = payload
  /\ carrier.buf # before

\* index k is inside the carrier: inside the width*height*4 bytes of an
\* image, inside the data chunk d of a WAV file, which is inside the file
InCarrier(k, d) ==
  IF carrier.kind = "image"
  THEN /\ 0 <= k /\ k < carrier.width * carrier.height * 4
       /\ carrier.width * carrier.height * 4 = Len(carrier.buf)
  ELSE /\ d.dataOffset <= k
       /\ k < d.dataOffset + d.dataLength
       /\ d.dataOffset + d.dataLength <= Len(carrier.buf)

\* a buffer as long as the carrier whose lowest bits all differ from
\* payload bit i: the write of that bit changes the byte it lands on
Probe(i) == [k \in 1..Len(before) |-> 1 - PayloadBit(payload, i)]

\* the indices the embed's turn for payload bit i assigns (an assignment
\* outside a buffer is dropped and changes nothing)
WrittenBy(i, d) ==
  Let(Probe(i), LAMBDA p :
    Let(IF carrier.kind = "image" THEN rgbaWrite(p, payload, i)
        ELSE wavWrite(p, payload, i, d.dataOffset, BytesPerSample),
        LAMBDA q : { k \in 0..(Len(p) - 1) : q[k + 1] # p[k + 1] }))

\* the carrier's data chunk (the empty record for an image)
CarrierChunk == IF carrier.kind = "audio" THEN DataChunk ELSE [kind |-> "image"]

\* C27: every carrier index the embed writes and every index the reader
\* reads lies inside the carrier: below width*height*4 for an image, from
\* dataOffset to below dataOffset + dataLength, which is within the buffer,
\* for a WAV file, also when dataLength is no multiple of bytesPerSample.
\* The embed's indices are examined in the state the embed leaves, before
\* the first read; the reader's index in every state.
C27_InBounds ==
  /\ (r.ok /\ Rd.reads = 0 /\ Rd.pc = "IDLE") =>
       Let(CarrierChunk, LAMBDA d :
         \A i \in 0..(8 * Len(payload) - 1) :
           Let(WrittenBy(i, d), LAMBDA ws :
             ws # {} /\ \A k \in ws : InCarrier(k, d)))
  /\ Rd.byteAt # -1 => Let(CarrierChunk, LAMBDA d : InCarrier(Rd.byteAt, d))
  /\ Rd.byteAt = -1 <=> Rd.bitAt = -1

\* The reader has read the last sample of a 16-bit WAV file whose data
\* chunk has an odd length, after an embed that wrote into the file.
C27_Witness ==
  /\ pc = "reader" /\ r.ok /\ Len(payload) > 0
  /\ carrier.kind = "audio" /\ carrier.bits = 16
  /\ DataChunk.dataLength % 2 = 1
  /\ Rd.bitAt = Rd.reader.capacityBits - 1
  /\ Rd.byteAt = DataChunk.dataOffset + DataChunk.dataLength - 3


---------------------------------------------------------------------------
(* Claims about the kinds parseContainer gives back (SpecPack).            *)

\* C28: parseContainer returns every item of a packed container with the
\* kind it was packed with: a file item as type file with the base64 of its
\* bytes, a text item as type text, for every name and every mime type, a
\* file of mime type text/plain included.
C28_KindPreserved ==
  (Packed /\ ParseCalled) =>
    /\ parsed.error = NoError
    /\ Len(parsed.items) = Len(container.items)
    /\ \A k \in 1..Len(parsed.items) :
         /\ container.items[k].t = S_file =>
              /\ parsed.items[k].type = "file"
              /\ parsed.items[k].base64 = Base64(container.items[k].data)
         /\ container.items[k].t = S_text => parsed.items[k].type = "text"


---------------------------------------------------------------------------
(* Claims about what a finished extract returns (SpecExtract).             *)

\* C30: an extract that ends in DONE, its response ok: true, returns a
\* list of at least one item, whatever the carrier holds, a carrier written
\* by hand included.
C30_NonEmptyItems ==
  \A i \in DOMAIN calls :
    XAt(i, "DONE") => /\ calls[i].res.ok
                      /\ Len(calls[i].res.items) >= 1


---------------------------------------------------------------------------
(* SpecPrefix: handleExtract on a file and on a twin of it, a file of the  *)
(* same kind and dimensions with other bytes.                              *)

\* the reader handleExtract builds over a file (NoReader if it builds none)
Geometry(file) == xStart(XCall(file, <<>>)).reader

\* byte j of the carrier is one the embed writes, and which payload bit
WritablePos(g, j) ==
  IF g.kind = "image" THEN (IF j % 4 < 3 THEN (j \div 4) * 3 + (j % 4) ELSE -1)
  ELSE IF /\ j >= g.dataOffset
          /\ (j - g.dataOffset) % g.bytesPerSample = 0
          /\ (j - g.dataOffset) \div g.bytesPerSample < g.capacityBits
       THEN (j - g.dataOffset) \div g.bytesPerSample
       ELSE -1

\* byte j belongs to the pixels, to the whole samples of the data chunk
InRegion(g, j) ==
  IF g.kind = "image" THEN TRUE
  ELSE j >= g.dataOffset /\ j < g.dataOffset + g.capacityBits * g.bytesPerSample

\* the number of carrier bits extractData consumes from the file
Consumed(g, password, seals) == extractData(g, password, seals).reader.bitIdx

\* the twin that keeps the lowest bit of the first n writable bytes and has
\* every other bit of the pixels or samples changed: the upper seven bits of
\* every writable byte, the lowest bit of the writable bytes from n on, the
\* alpha bytes and the high bytes of the samples
Agreeing(g, n) ==
  [i \in 1..Len(g.buf) |->
     Let(WritablePos(g, i - 1), LAMBDA k :
       IF ~InRegion(g, i - 1) THEN g.buf[i]
       ELSE IF k = -1 THEN 255 - g.buf[i]
       ELSE 2 * ((g.buf[i] \div 2 + 37) % 128)
            + (IF k < n THEN g.buf[i] % 2 ELSE 1 - (g.buf[i] % 2)))]

\* the twin that differs in the lowest bit of writable byte n alone
Disagreeing(g, n) ==
  [i \in 1..Len(g.buf) |->
     IF WritablePos(g, i - 1) = n THEN g.buf[i] + 1 - 2 * (g.buf[i] % 2) ELSE g.buf[i]]

\* the twins of a file for a password: the file itself if it is no carrier
Twins(file, password, seals) ==
  Let(Geometry(file), LAMBDA g :
    IF g = NoReader THEN {file}
    ELSE Let(Consumed(g, password, seals), LAMBDA n :
           { [file EXCEPT !.buffer = Agreeing(g, n)] }
           \cup (IF n > 0 THEN { [file EXCEPT !.buffer = Disagreeing(g, n - 1)] } ELSE {})))

InitPrefix ==
  /\ carrier = NoUpload /\ payload = <<>> /\ r = NoResult /\ before = <<>>
  /\ secret = NoSecret /\ container = NotPacked /\ parsed = NotParsed
  /\ cover = NoUpload /\ stego = NoUpload /\ res = NoResponse
  /\ tampered = NoTamper /\ req = NoRequest
  /\ pc = "twins"
  /\ disk = {}
  /\ \E e \in ExtractRuns, q \in ExtractPasswords :
       /\ sealed = e.seals
       /\ \E twin \in Twins(e.file, q, e.seals) :
            calls = <<XCall(e.file, q), XCall(twin, q)>>

\* res.json has been called
Answered(c) == c.pc \in {"DONE", "ERROR"}

\* the request that is served: the twin's once the file's is answered
Served == IF Answered(calls[1]) THEN 2 ELSE 1

\* the two requests are served one after the other
NextPrefix == NextExtract /\ calls'[Served] # calls[Served]

SpecPrefix == InitPrefix /\ [][NextPrefix]_vars

---------------------------------------------------------------------------
(* Claims about a file and its twin (SpecPrefix).                          *)

\* the lowest bit of the byte that holds payload bit k
LsbAt(reader, k) == BufGet(reader.buf, rIndex(reader, k)) % 2

\* the two readers are over carriers of the same kind and dimensions
SameShape(a, b) ==
  /\ a.kind = b.kind /\ a.capacityBits = b.capacityBits
  /\ a.dataOffset = b.dataOffset /\ a.bytesPerSample = b.bytesPerSample
  /\ Len(a.buf) = Len(b.buf)

\* the carriers agree in the lowest bit of the first n writable bytes
AgreeOnPrefix(a, b, n) == \A k \in 0..(n - 1) : LsbAt(a, k) = LsbAt(b, k)

\* C29: two carriers of the same kind and dimensions that agree in the
\* least-significant bit of the first N writable bytes, N the number of
\* bits the extract of the first consumes, get the same response under the
\* same password: the same items or the same error, whatever their other
\* bits, alpha bytes, high sample bytes and later bytes are.
C29_PrefixOnly ==
  (/\ pc = "twins" /\ Answered(calls[1]) /\ Answered(calls[2])
   /\ SameShape(calls[1].reader, calls[2].reader)
   /\ AgreeOnPrefix(calls[1].reader, calls[2].reader, calls[1].reader.bitIdx))
  => /\ calls[1].res = calls[2].res
     /\ calls[1].reader.bitIdx = calls[2].reader.bitIdx

\* Both extracts have returned the items of a 16-bit WAV file and of a twin
\* that differs from it in a high byte inside the part read, and in the
\* lowest bit of a sample after it.
C29_Witness ==
  /\ pc = "twins" /\ Answered(calls[1]) /\ Answered(calls[2])
  /\ calls[1].pc = "DONE" /\ calls[1].res.ok /\ Len(calls[1].res.items) > 0
  /\ calls[1].reader.kind = "audio" /\ calls[1].reader.bytesPerSample = 2
  /\ SameShape(calls[1].reader, calls[2].reader)
  /\ AgreeOnPrefix(calls[1].reader, calls[2].reader, calls[1].reader.bitIdx)
  /\ calls[1].reader.bitIdx < calls[1].reader.capacityBits
  /\ LsbAt(calls[1].reader, calls[1].reader.bitIdx)
       # LsbAt(calls[2].reader, calls[1].reader.bitIdx)
  /\ BufGet(calls[1].reader.buf, calls[1].reader.dataOffset + 1)
       # BufGet(calls[2].reader.buf, calls[1].reader.dataOffset + 1)

===========================================================================
